---- MODULE Spec2Model ----
(***************************************************************************)
(* Customer simulation of the kebab-counter game: CustomerManager          *)
(* (systems/CustomerManager.js), Customer (entities/Customer.js) and the   *)
(* Game handlers that drive them (core/Game.js): starting a game, going    *)
(* back to the menu, the per-frame update, serving, and the setTimeout     *)
(* callbacks that remove a customer and free its seat.                     *)
(*                                                                         *)
(* Units: patience and deltaTime in seconds, spawn timer and timer delays  *)
(* in milliseconds, customer coordinates in pixels.  The player's centre   *)
(* is given in half pixels (x2, y2) so that a point midway between two     *)
(* seats, whose centres are 65 px apart, is an exact number.               *)
(***************************************************************************)
EXTENDS Integers, Sequences, FiniteSets, TLC

(* ---------------- bounds of the model ---------------- *)
\* customers created over a whole run (caps the identity counter)
MaxCustomerId == 3
\* the same cap in the runs that also model the player's inventory
MaxGameCustomerId == 1
\* the same cap in the runs of a whole solo match
MaxMatchCustomerId == 5
\* the same cap in the runs where a second Game receives the snapshots
MaxSyncCustomerId == 2

(* ---------------- program constants ---------------- *)
GameWidth == 600
GameHeight == 500
counterHeight == 80
counterY == GameHeight - counterHeight - 20
spotX == GameWidth \div 2 - 40
spotY == counterY + 30
NumPositions == 4
spacing == 65
startX == spotX - 70
CustomerWidth == 50
CustomerHeight == 60
ExtraTimePerItem == 5
SatisfiedRemoveDelay == 800
AngryRemoveDelay == 1000
maxInventory == 3
levelDuration == 60
PeerTimeout == 10
GlobalTimeout == 20
maxLostCustomers == 5
KEBAB == "kebab"
DRINK == "drink"
ItemType == {KEBAB, DRINK}

\* LevelState
MENU == "menu"
PLAYING == "playing"
WON == "won"
LOST == "lost"
\* Difficulty and DifficultyConfig
EASY == "easy"
MEDIUM == "medium"
HARD == "hard"
\* NetworkRole
NONE == "none"
HOST == "host"
CLIENT == "client"
\* NetworkState
DISCONNECTED == "disconnected"
CONNECTING == "connecting"
WAITING == "waiting"
CONNECTED == "connected"
IN_GAME == "inGame"
\* MenuState
MAIN == "main"
MULTI_MENU == "multiMenu"
LOBBY_HOST == "lobbyHost"
LOBBY_JOIN == "lobbyJoin"
\* GameMode
SOLO == "solo"
MULTI_HOST == "multiHost"
MULTI_CLIENT == "multiClient"
Difficulty == {EASY, MEDIUM, HARD}
DifficultyConfig ==
  [ d \in Difficulty |->
      IF d = EASY
      THEN [ maxCustomers |-> 2, customerSpawnDelay |-> 4000, customerPatience |-> 25 ]
      ELSE IF d = MEDIUM
      THEN [ maxCustomers |-> 3, customerSpawnDelay |-> 3000, customerPatience |-> 20 ]
      ELSE [ maxCustomers |-> 4, customerSpawnDelay |-> 2000, customerPatience |-> 15 ] ]

choices ==
  << [kebab |-> 1, drink |-> 0], [kebab |-> 0, drink |-> 1],
     [kebab |-> 2, drink |-> 0], [kebab |-> 0, drink |-> 2],
     [kebab |-> 1, drink |-> 1], [kebab |-> 2, drink |-> 1],
     [kebab |-> 1, drink |-> 2] >>
weights == << 3, 3, 2, 2, 2, 1, 1 >>

RECURSIVE SumSeq(_)
SumSeq(s) == IF s = << >> THEN 0 ELSE Head(s) + SumSeq(Tail(s))
totalWeight == SumSeq(weights)

(* ---------------- inputs ---------------- *)
\* deltaTime of update, in seconds: one step of 5 s
DeltaTimes == { 5 }
\* configure(maxCustomers, spawnDelay, patience): the cap of the Easy
\* difficulty, a spawn every second step, a base patience of two steps
CapChoices == { 2 }
SpawnDelayChoices == { 10000 }
PatienceChoices == { 10 }
\* Math.random() * totalWeight is a real number of [0, totalWeight): it is
\* counted in halves
RandomUnit == 2
\* Math.random() * totalWeight, sampled at the halves of [0, totalWeight)
RandomSamples == 0 .. (totalWeight * RandomUnit - 1)
\* centres of the player (half pixels), 360 px down the kitchen: midway
\* between seats 0 and 1 (247.5 px), and in front of seat 1 (280 px)
PlayerCenters ==
  { [x2 |-> x, y2 |-> 720] : x \in {495, 560} }
\* the samples of Math.random() * totalWeight in the runs of a whole match:
\* the orders {kebab: 1} and {kebab: 1, drink: 1}
MatchRandomSamples == { 0, 11 * RandomUnit }

VARIABLES
  customers,          \* CustomerManager.customers, in list order
  customerPositions,  \* CustomerManager.customerPositions: seat -> x, y, occupied
  maxCustomers,
  spawnDelay,
  timeSinceLastSpawn,
  autoSpawn,
  customerPatience,
  customersServed,
  customersLost,
  timers,             \* pending setTimeout callbacks, in scheduling order
  nextId,             \* identity of the next Customer object
  inventory,          \* localPlayer.inventory (item kinds, bottom first)
  score,              \* levelManager.score
  lastServe,          \* what the step that produced the state delivered:
                      \* the accepted call of TryServeCustomer, all the
                      \* calls of TryServeCustomers with their results, or
                      \* a gameState message to this Game
  levelManager,       \* Game.levelManager: state, difficulty, timeRemaining,
                      \* customersLost (its score is the variable score)
  client,             \* the Game of the peer that joined (gameMode
                      \* multiClient): its levelManager and customerManager
  games,              \* the two Games of a session: networkManager,
                      \* levelManager, gameMode, menuState, customers, ...
  channel,            \* per Game, the messages sent to it and not yet handled
  closing,            \* per Game, whether the close event of its connection
                      \* is pending
  emitted,            \* per Game, the types of the messages its last handler
                      \* gave to connection.send
  gameStarts,         \* the gameStart messages the host has given to its
                      \* connection since hostGame
  lastHandler,        \* the handler of the session that produced the state,
                      \* the Game it ran in and the match state it began in
  link                \* one NetworkManager with the calls of hostGame and
                      \* joinGame that are under way, their promises and
                      \* timers, and the time

vars == << customers, customerPositions, maxCustomers, spawnDelay,
           timeSinceLastSpawn, autoSpawn, customerPatience,
           customersServed, customersLost, timers, nextId, inventory,
           score, lastServe, levelManager, client,
           games, channel, closing, emitted, gameStarts, lastHandler,
           link >>
\* what lies outside the CustomerManager and the player's inventory, and
\* outside the Game that owns them
sessionVars ==
  << games, channel, closing, emitted, gameStarts, lastHandler, link >>
outsideManager == << levelManager, client, sessionVars >>
outsideGame == << client, sessionVars >>

(* ---------------- Customer ---------------- *)
Max(a, b) == IF a >= b THEN a ELSE b

\* new Customer(x, y, order, basePatience); id stands for the object identity
\* new Customer without the extra time of the larger orders
Customer_FlatPatience(id, x, y, order, basePatience) ==
  [ id |-> id, x |-> x, y |-> y, positionIndex |-> -1,
    order |-> order, originalOrder |-> order,
    satisfied |-> FALSE, angry |-> FALSE,
    maxPatience |-> basePatience, patience |-> basePatience ]

Customer(id, x, y, order, basePatience) ==
  LET totalItems == order.kebab + order.drink
      extraTime == Max(0, totalItems - 1) * ExtraTimePerItem
  IN [ id |-> id, x |-> x, y |-> y, positionIndex |-> -1,
       order |-> order, originalOrder |-> order,
       satisfied |-> FALSE, angry |-> FALSE,
       maxPatience |-> basePatience + extraTime,
       patience |-> basePatience + extraTime ]

\* the loop of generateRandomOrder from index i on, random being what is left
RECURSIVE PickOrder(_, _)
PickOrder(random, i) ==
  IF i > Len(choices) THEN [kebab |-> 1, drink |-> 0]
  ELSE IF random - weights[i] * RandomUnit <= 0 THEN choices[i]
  ELSE PickOrder(random - weights[i] * RandomUnit, i + 1)

generateRandomOrder(random) == PickOrder(random, 1)

\* Customer.update without its test on satisfied and angry
Customer_update_Unguarded(c, deltaTime) ==
  LET p == c.patience - deltaTime
  IN IF p <= 0 THEN [c EXCEPT !.patience = 0, !.angry = TRUE]
               ELSE [c EXCEPT !.patience = p]

\* Customer.update testing patience < 0 instead of patience <= 0
Customer_update_StrictZero(c, deltaTime) ==
  IF ~c.satisfied /\ ~c.angry
  THEN LET p == c.patience - deltaTime
       IN IF p < 0 THEN [c EXCEPT !.patience = 0, !.angry = TRUE]
                   ELSE [c EXCEPT !.patience = p]
  ELSE c

Customer_update(c, deltaTime) ==
  IF ~c.satisfied /\ ~c.angry
  THEN LET p == c.patience - deltaTime
       IN IF p <= 0 THEN [c EXCEPT !.patience = 0, !.angry = TRUE]
                    ELSE [c EXCEPT !.patience = p]
  ELSE c

needsItem(c, itemType) ==
  IF itemType = KEBAB THEN c.order.kebab > 0
  ELSE IF itemType = DRINK THEN c.order.drink > 0
  ELSE FALSE

\* checkIfSatisfied with || instead of &&
checkIfSatisfied_Either(c) ==
  IF c.order.kebab = 0 \/ c.order.drink = 0
  THEN [c EXCEPT !.satisfied = TRUE] ELSE c

checkIfSatisfied(c) ==
  IF c.order.kebab = 0 /\ c.order.drink = 0
  THEN [c EXCEPT !.satisfied = TRUE] ELSE c

\* deliverItem without its tests on the remaining counts
deliverItem_Unchecked(c, itemType) ==
  IF itemType = KEBAB
  THEN [cust |-> checkIfSatisfied([c EXCEPT !.order.kebab = @ - 1]),
        accepted |-> TRUE]
  ELSE [cust |-> checkIfSatisfied([c EXCEPT !.order.drink = @ - 1]),
        accepted |-> TRUE]

\* deliverItem: the customer afterwards, and whether the item was accepted
deliverItem(c, itemType) ==
  IF itemType = KEBAB /\ c.order.kebab > 0
  THEN [cust |-> checkIfSatisfied([c EXCEPT !.order.kebab = @ - 1]),
        accepted |-> TRUE]
  ELSE IF itemType = DRINK /\ c.order.drink > 0
  THEN [cust |-> checkIfSatisfied([c EXCEPT !.order.drink = @ - 1]),
        accepted |-> TRUE]
  ELSE [cust |-> c, accepted |-> FALSE]

getTotalOrderItems(c) == c.originalOrder.kebab + c.originalOrder.drink

(* ---------------- CustomerManager ---------------- *)
calculatePositions ==
  [ i \in 0 .. (NumPositions - 1) |->
      [ x |-> startX + i * spacing, y |-> spotY + 5, occupied |-> FALSE ] ]

\* the first free seat among the first maxC seats, or -1
findFreePosition(positions, maxC) ==
  LET free == { i \in 0 .. (NumPositions - 1) :
                  i < maxC /\ ~positions[i].occupied }
  IN IF free = {} THEN -1
     ELSE CHOOSE i \in free : \A j \in free : i <= j

getWaitingCount(cs) ==
  Cardinality({ i \in 1 .. Len(cs) : ~cs[i].satisfied /\ ~cs[i].angry })

\* 4 x the squared distance from the player's centre to the customer's centre
Dist(playerCenter, c) ==
  LET cx2 == 2 * c.x + CustomerWidth
      cy2 == 2 * c.y + CustomerHeight
  IN (playerCenter.x2 - cx2) * (playerCenter.x2 - cx2)
     + (playerCenter.y2 - cy2) * (playerCenter.y2 - cy2)

\* the for-loop of findNearestCustomerNeedingItem from index i on; nearest is
\* the index of the customer held so far (0 for null, when minDist is Infinity)
RECURSIVE NearestLoop(_, _, _, _, _, _)
NearestLoop(cs, playerCenter, itemType, i, nearest, minDist) ==
  IF i > Len(cs) THEN nearest
  ELSE IF cs[i].satisfied \/ cs[i].angry
  THEN NearestLoop(cs, playerCenter, itemType, i + 1, nearest, minDist)
  ELSE IF ~needsItem(cs[i], itemType)
  THEN NearestLoop(cs, playerCenter, itemType, i + 1, nearest, minDist)
  ELSE LET dist == Dist(playerCenter, cs[i])
       IN IF nearest = 0 \/ dist < minDist
          THEN NearestLoop(cs, playerCenter, itemType, i + 1, i, dist)
          ELSE NearestLoop(cs, playerCenter, itemType, i + 1, nearest, minDist)

\* findNearestCustomerNeedingItem returning the first customer that passes
\* the two tests, without comparing distances
findNearest_FirstEligible(cs, playerCenter, itemType) ==
  LET elig == { i \in 1 .. Len(cs) :
                  ~cs[i].satisfied /\ ~cs[i].angry /\ needsItem(cs[i], itemType) }
  IN IF elig = {} THEN 0 ELSE CHOOSE i \in elig : \A j \in elig : i <= j

\* findNearestCustomerNeedingItem comparing with dist <= minDist: the last of
\* the nearest customers wins
findNearest_LastTied(cs, playerCenter, itemType) ==
  LET elig == { i \in 1 .. Len(cs) :
                  ~cs[i].satisfied /\ ~cs[i].angry /\ needsItem(cs[i], itemType) }
      near == { i \in elig : \A j \in elig :
                  Dist(playerCenter, cs[i]) <= Dist(playerCenter, cs[j]) }
  IN IF elig = {} THEN 0 ELSE CHOOSE i \in near : \A j \in near : i >= j

\* findNearestCustomerNeedingItem without the needsItem test
findNearest_AnyWaiting(cs, playerCenter, itemType) ==
  LET elig == { i \in 1 .. Len(cs) : ~cs[i].satisfied /\ ~cs[i].angry }
      near == { i \in elig : \A j \in elig :
                  Dist(playerCenter, cs[i]) <= Dist(playerCenter, cs[j]) }
  IN IF elig = {} THEN 0 ELSE CHOOSE i \in near : \A j \in near : i <= j

\* index in cs of the customer returned, 0 for null
findNearestCustomerNeedingItem(cs, playerCenter, itemType) ==
  IF Len(cs) = 0 THEN 0
  ELSE NearestLoop(cs, playerCenter, itemType, 1, 0, 0)

\* { success: false, points: 0 }; a field the code leaves out is FALSE or 0
Failure ==
  [ success |-> FALSE, points |-> 0, wrongOrder |-> FALSE, correct |-> FALSE,
    completed |-> FALSE, orderSize |-> 0 ]

\* tryServeCustomer on the manager state m = [customers, served, timers]
tryServeCustomer(m, playerCenter, itemType) ==
  IF itemType \notin ItemType
  THEN [ m |-> m, target |-> 0, result |-> Failure ]
  ELSE
  LET k == findNearestCustomerNeedingItem(m.customers, playerCenter, itemType)
  IN IF k = 0
     THEN [ m |-> m, target |-> 0, result |-> [Failure EXCEPT !.wrongOrder = TRUE] ]
     ELSE
       LET d == deliverItem(m.customers[k], itemType)
           c == d.cust
           completed == c.satisfied
       IN IF d.accepted
          THEN [ m |-> [ customers |-> [m.customers EXCEPT ![k] = c],
                         served |-> IF completed THEN m.served + 1 ELSE m.served,
                         timers |-> IF completed
                                    THEN Append(m.timers,
                                           [ customer |-> c.id,
                                             posIndex |-> c.positionIndex,
                                             delay |-> SatisfiedRemoveDelay ])
                                    ELSE m.timers ],
                 target |-> c.id,
                 result |-> [ success |-> TRUE, correct |-> TRUE,
                              points |-> IF completed THEN getTotalOrderItems(c) ELSE 1,
                              completed |-> completed,
                              orderSize |-> getTotalOrderItems(c),
                              wrongOrder |-> FALSE ] ]
          ELSE [ m |-> m, target |-> 0, result |-> Failure ]

\* removeCustomer: indexOf + splice
removeCustomer(cs, id) ==
  SelectSeq(cs, LAMBDA c : c.id # id)

\* spawnCustomer: the customer list and the seats afterwards
spawnCustomer(cs, positions, maxC, basePatience, id, random) ==
  LET posIndex == findFreePosition(positions, maxC)
  IN IF posIndex = -1
     THEN [ customers |-> cs, positions |-> positions, spawned |-> FALSE ]
     ELSE LET pos == positions[posIndex]
              order == generateRandomOrder(random)
              customer == [ Customer(id, pos.x, pos.y, order, basePatience)
                              EXCEPT !.positionIndex = posIndex ]
          IN [ customers |-> Append(cs, customer),
               positions |-> [positions EXCEPT ![posIndex].occupied = TRUE],
               spawned |-> TRUE ]

\* the auto-spawn block of update without the test on the spawn delay
AutoSpawn_AlwaysDue(cs, positions, t, deltaTime, random) ==
  IF ~autoSpawn
  THEN [ customers |-> cs, positions |-> positions, spawned |-> FALSE, t |-> t ]
  ELSE LET s == IF getWaitingCount(cs) < maxCustomers
                THEN spawnCustomer(cs, positions, maxCustomers,
                                   customerPatience, nextId, random)
                ELSE [ customers |-> cs, positions |-> positions,
                       spawned |-> FALSE ]
       IN [ customers |-> s.customers, positions |-> s.positions,
            spawned |-> s.spawned, t |-> 0 ]

\* the auto-spawn block of update
AutoSpawn(cs, positions, t, deltaTime, random) ==
  IF ~autoSpawn
  THEN [ customers |-> cs, positions |-> positions, spawned |-> FALSE, t |-> t ]
  ELSE LET t1 == t + deltaTime * 1000
       IN IF t1 >= spawnDelay
          THEN LET waitingCount == getWaitingCount(cs)
                   s == IF waitingCount < maxCustomers
                        THEN spawnCustomer(cs, positions, maxCustomers,
                                           customerPatience, nextId, random)
                        ELSE [ customers |-> cs, positions |-> positions,
                               spawned |-> FALSE ]
               IN [ customers |-> s.customers, positions |-> s.positions,
                    spawned |-> s.spawned, t |-> 0 ]
          ELSE [ customers |-> cs, positions |-> positions,
                 spawned |-> FALSE, t |-> t1 ]

\* the timers the second loop of update schedules: one per customer that has
\* just become angry, from the last index down to the first
RECURSIVE AngryTimers(_, _, _)
AngryTimers(cs, deltaTime, i) ==
  IF i = 0 THEN << >>
  ELSE LET c == Customer_update(cs[i], deltaTime)
       IN IF c.angry /\ ~cs[i].angry
          THEN << [ customer |-> c.id, posIndex |-> c.positionIndex,
                    delay |-> AngryRemoveDelay ] >>
               \o AngryTimers(cs, deltaTime, i - 1)
          ELSE AngryTimers(cs, deltaTime, i - 1)

NoPlayer == [x2 |-> 0, y2 |-> 0]

\* nothing delivered by the last step
NoServe ==
  [ name |-> "none", playerCenter |-> NoPlayer, item |-> "none", target |-> 0,
    result |-> Failure, calls |-> << >> ]

(* ---------------- NetworkManager ---------------- *)
\* the two Games of a session: P1 creates it, P2 joins it
P1 == "p1"
P2 == "p2"
Peers == { P1, P2 }
Other(p) == IF p = P1 THEN P2 ELSE P1

\* new NetworkManager(): peer says whether a Peer object exists, connection
\* is "null", "pending" (a connection that is not open yet) or "open"
NewNetworkManager ==
  [ peer |-> FALSE, connection |-> "null", role |-> NONE,
    state |-> DISCONNECTED, sessionCode |-> "null",
    remotePlayerData |-> "null" ]

NoHandler == [ name |-> "none", peer |-> "none", during |-> MENU ]

\* new Game(canvas), as far as a session goes
NewGame ==
  [ networkManager |-> NewNetworkManager,
    levelManager |-> [ state |-> MENU, difficulty |-> "null",
                       timeRemaining |-> 0, customersLost |-> 0 ],
    score |-> 0, gameMode |-> SOLO, menuState |-> MAIN,
    customers |-> << >>, customerPositions |-> calculatePositions,
    maxCustomers |-> 2, spawnDelay |-> 3000, autoSpawn |-> FALSE ]

NothingEmitted == [ p \in Peers |-> {} ]

\* send without its test on the connection
send_Unchecked(nm, type, payload) ==
  << [ type |-> type, payload |-> payload ] >>

\* send(type, payload): the messages given to connection.send
send(nm, type, payload) ==
  IF nm.connection = "open"
  THEN << [ type |-> type, payload |-> payload ] >>
  ELSE << >>

sendPlayerState(nm, playerData) == send(nm, "playerState", playerData)

sendGameState(nm, gameState) ==
  IF nm.role = HOST THEN send(nm, "gameState", gameState) ELSE << >>

\* startGame without its test on the state
NetworkManager_startGame_AnyState(nm, difficulty) ==
  IF nm.role = HOST
  THEN [ nm |-> [nm EXCEPT !.state = IN_GAME],
         sent |-> send(nm, "gameStart", [ difficulty |-> difficulty ]),
         result |-> TRUE ]
  ELSE [ nm |-> nm, sent |-> << >>, result |-> FALSE ]

\* startGame(difficulty): the manager afterwards, what it sent, what it returns
NetworkManager_startGame(nm, difficulty) ==
  IF nm.role = HOST /\ nm.state = CONNECTED
  THEN [ nm |-> [nm EXCEPT !.state = IN_GAME],
         sent |-> send(nm, "gameStart", [ difficulty |-> difficulty ]),
         result |-> TRUE ]
  ELSE [ nm |-> nm, sent |-> << >>, result |-> FALSE ]

isConnected(nm) == nm.state = CONNECTED \/ nm.state = IN_GAME

\* disconnect without the reset of the role and of the remote snapshot
disconnect_KeepRole(nm) ==
  [nm EXCEPT !.connection = "null", !.peer = FALSE,
             !.state = DISCONNECTED, !.sessionCode = "null"]

disconnect(nm) ==
  [nm EXCEPT !.connection = "null", !.peer = FALSE, !.role = NONE,
             !.state = DISCONNECTED, !.sessionCode = "null",
             !.remotePlayerData = "null"]

\* the session code of the hosted game and the codes typed in the join lobby
HostCode == "ABC123"
JoinCodes == { "XYZ789" }

\* a NetworkManager with no call of hostGame or joinGame made yet: the
\* manager, the calls in the order they were made (the last one owns the
\* peer), and the time in seconds
NewLink ==
  [ nm |-> NewNetworkManager, calls |-> << >>, now |-> 0 ]

(* ---------------- state machine ---------------- *)
Init ==
  /\ customers = << >>
  /\ customerPositions = calculatePositions
  /\ maxCustomers = 2
  /\ spawnDelay = 3000
  /\ timeSinceLastSpawn = 0
  /\ autoSpawn = FALSE
  /\ customerPatience = 15
  /\ customersServed = 0
  /\ customersLost = 0
  /\ timers = << >>
  /\ nextId = 1
  /\ inventory = << >>
  /\ score = 0
  /\ lastServe = NoServe
  /\ levelManager = [ state |-> MENU, difficulty |-> "null",
                      timeRemaining |-> 0, customersLost |-> 0 ]
  /\ client = [ state |-> MENU, difficulty |-> "null", timeRemaining |-> 0,
                score |-> 0, customersLost |-> 0, customers |-> << >>,
                customerPositions |-> calculatePositions, lastOp |-> "none" ]
  /\ games = [ p \in Peers |-> NewGame ]
  /\ channel = [ p \in Peers |-> << >> ]
  /\ closing = [ p \in Peers |-> FALSE ]
  /\ emitted = NothingEmitted
  /\ gameStarts = 0
  /\ lastHandler = NoHandler
  /\ link = NewLink

\* reset leaving the seats as they are
ResetPositions_Kept(positions) == positions

\* CustomerManager.reset on the seats
ResetPositions(positions) ==
  [ i \in DOMAIN positions |-> [positions[i] EXCEPT !.occupied = FALSE] ]

\* the start of a game with a configure that leaves the spawn timer at zero
StartGame_TimerZero(maxC, delay, patience) ==
  /\ inventory' = << >>
  /\ customers' = << >>
  /\ customerPositions' = ResetPositions(customerPositions)
  /\ customersServed' = 0
  /\ customersLost' = 0
  /\ score' = 0
  /\ maxCustomers' = maxC
  /\ spawnDelay' = delay
  /\ customerPatience' = patience
  /\ autoSpawn' = TRUE
  /\ timeSinceLastSpawn' = 0
  /\ lastServe' = NoServe
  /\ UNCHANGED << timers, nextId >>

\* Game.startSoloGame / startMultiplayerGame: new players, reset(),
\* startLevel() and configure(maxC, delay, patience)
StartGame(maxC, delay, patience) ==
  /\ inventory' = << >>
  /\ customers' = << >>
  /\ customerPositions' = ResetPositions(customerPositions)
  /\ customersServed' = 0
  /\ customersLost' = 0
  /\ score' = 0
  /\ maxCustomers' = maxC
  /\ spawnDelay' = delay
  /\ customerPatience' = patience
  /\ autoSpawn' = TRUE
  /\ timeSinceLastSpawn' = delay
  /\ lastServe' = NoServe
  /\ UNCHANGED << timers, nextId >>

\* Game.returnToMenu: levelManager.returnToMenu(), reset(), clearInventory()
ReturnToMenu ==
  /\ score' = 0
  /\ customers' = << >>
  /\ customerPositions' = ResetPositions(customerPositions)
  /\ timeSinceLastSpawn' = 0
  /\ autoSpawn' = FALSE
  /\ customersServed' = 0
  /\ customersLost' = 0
  /\ inventory' = << >>
  /\ lastServe' = NoServe
  /\ UNCHANGED << maxCustomers, spawnDelay, customerPatience, timers, nextId >>

WillSpawn(deltaTime) ==
  AutoSpawn(customers, customerPositions, timeSinceLastSpawn, deltaTime, 0).spawned

\* CustomerManager.update(deltaTime); maxId caps the customers ever created
Update(deltaTime, random, maxId) ==
  LET a == AutoSpawn(customers, customerPositions, timeSinceLastSpawn,
                     deltaTime, random)
      newTimers == AngryTimers(a.customers, deltaTime, Len(a.customers))
  IN /\ a.spawned => nextId <= maxId
     /\ customers' = [ i \in 1 .. Len(a.customers) |->
                         Customer_update(a.customers[i], deltaTime) ]
     /\ customerPositions' = a.positions
     /\ timeSinceLastSpawn' = a.t
     /\ nextId' = IF a.spawned THEN nextId + 1 ELSE nextId
     /\ customersLost' = customersLost + Len(newTimers)
     /\ timers' = timers \o newTimers
     /\ lastServe' = NoServe
     /\ UNCHANGED << maxCustomers, spawnDelay, autoSpawn, customerPatience,
                     customersServed, inventory, score >>

\* one call of CustomerManager.tryServeCustomer(player, item)
TryServeCustomer(playerCenter, itemType) ==
  LET r == tryServeCustomer([ customers |-> customers,
                              served |-> customersServed,
                              timers |-> timers ], playerCenter, itemType)
  IN /\ customers' = r.m.customers
     /\ customersServed' = r.m.served
     /\ timers' = r.m.timers
     /\ lastServe' =
          IF r.result.success
          THEN [NoServe EXCEPT !.name = "serve", !.playerCenter = playerCenter,
                               !.item = itemType, !.target = r.target,
                               !.result = r.result]
          ELSE NoServe
     /\ UNCHANGED << customerPositions, maxCustomers, spawnDelay,
                     timeSinceLastSpawn, autoSpawn, customerPatience,
                     customersLost, nextId, inventory, score >>

RemoveAt(s, i) ==
  [ j \in 1 .. (Len(s) - 1) |-> IF j < i THEN s[j] ELSE s[j + 1] ]

\* a setTimeout callback runs: removeCustomer(customer), then the seat is freed.
\* A callback scheduled earlier with a delay that is not longer runs first.
TimerFire(i) ==
  /\ i \in 1 .. Len(timers)
  /\ \A j \in 1 .. (i - 1) : timers[j].delay > timers[i].delay
  /\ customers' = removeCustomer(customers, timers[i].customer)
  /\ customerPositions' =
        [customerPositions EXCEPT ![timers[i].posIndex].occupied = FALSE]
  /\ timers' = RemoveAt(timers, i)
  /\ lastServe' = NoServe
  /\ UNCHANGED << maxCustomers, spawnDelay, timeSinceLastSpawn, autoSpawn,
                  customerPatience, customersServed, customersLost, nextId,
                  inventory, score >>

\* the for-loop of tryServeCustomers giving result.points for a completed
\* order, without doubling the size of the order
RECURSIVE ServeLoop_ResultPoints(_, _, _)
ServeLoop_ResultPoints(g, playerCenter, i) ==
  IF i = 0 THEN g
  ELSE
    LET item == g.inv[i]
        hadRecipient == \E k \in 1 .. Len(g.m.customers) :
                           LET c == g.m.customers[k]
                           IN ~c.satisfied /\ ~c.angry /\ c.order[item] > 0
        r == tryServeCustomer(g.m, playerCenter, item)
        call == [ item |-> item, hadRecipient |-> hadRecipient,
                  result |-> r.result ]
    IN IF r.result.success /\ r.result.correct
       THEN ServeLoop_ResultPoints(
                      [ m |-> r.m,
                        inv |-> RemoveAt(g.inv, i),
                        totalPoints |-> g.totalPoints + r.result.points,
                        itemsDelivered |-> g.itemsDelivered + 1,
                        calls |-> Append(g.calls, call) ],
                      playerCenter, i - 1)
       ELSE ServeLoop_ResultPoints([g EXCEPT !.calls = Append(g.calls, call)],
                                   playerCenter, i - 1)

\* the for-loop of Game.tryServeCustomers from index i down to 1, on
\* g = [m, inv, totalPoints, itemsDelivered, calls]
RECURSIVE ServeLoop(_, _, _)
ServeLoop(g, playerCenter, i) ==
  IF i = 0 THEN g
  ELSE
    LET item == g.inv[i]
        hadRecipient == \E k \in 1 .. Len(g.m.customers) :
                           LET c == g.m.customers[k]
                           IN ~c.satisfied /\ ~c.angry /\ c.order[item] > 0
        r == tryServeCustomer(g.m, playerCenter, item)
        call == [ item |-> item, hadRecipient |-> hadRecipient,
                  result |-> r.result ]
    IN IF r.result.success /\ r.result.correct
       THEN ServeLoop([ m |-> r.m,
                        inv |-> RemoveAt(g.inv, i),
                        totalPoints |-> g.totalPoints
                           + (IF r.result.completed
                              THEN r.result.orderSize * 2 ELSE 1),
                        itemsDelivered |-> g.itemsDelivered + 1,
                        calls |-> Append(g.calls, call) ],
                      playerCenter, i - 1)
       ELSE ServeLoop([g EXCEPT !.calls = Append(g.calls, call)],
                      playerCenter, i - 1)

\* Game.handleInteraction near the counter with items: tryServeCustomers(player)
TryServeCustomers(playerCenter) ==
  /\ Len(inventory) > 0
  /\ LET g == ServeLoop([ m |-> [ customers |-> customers,
                                  served |-> customersServed,
                                  timers |-> timers ],
                          inv |-> inventory, totalPoints |-> 0,
                          itemsDelivered |-> 0, calls |-> << >> ],
                        playerCenter, Len(inventory))
     IN /\ customers' = g.m.customers
        /\ customersServed' = g.m.served
        /\ timers' = g.m.timers
        /\ inventory' = g.inv
        /\ score' = IF g.itemsDelivered > 0 THEN score + g.totalPoints ELSE score
        /\ lastServe' = [NoServe EXCEPT !.name = "serveAll", !.calls = g.calls]
  /\ UNCHANGED << customerPositions, maxCustomers, spawnDelay,
                  timeSinceLastSpawn, autoSpawn, customerPatience,
                  customersLost, nextId >>

\* Game.handleInteraction at a station: Player.pickUp(new Item(type))
PickUp(itemType) ==
  /\ Len(inventory) < maxInventory
  /\ inventory' = Append(inventory, itemType)
  /\ lastServe' = NoServe
  /\ UNCHANGED << customers, customerPositions, maxCustomers, spawnDelay,
                  timeSinceLastSpawn, autoSpawn, customerPatience,
                  customersServed, customersLost, timers, nextId, score >>

\* Game.handleDropItem: Player.dropItem() pops the last item
DropItem ==
  /\ Len(inventory) > 0
  /\ inventory' = SubSeq(inventory, 1, Len(inventory) - 1)
  /\ lastServe' = NoServe
  /\ UNCHANGED << customers, customerPositions, maxCustomers, spawnDelay,
                  timeSinceLastSpawn, autoSpawn, customerPatience,
                  customersServed, customersLost, timers, nextId, score >>

\* the customer simulation driven through its own interface
Next ==
  \/ \E maxC \in CapChoices, delay \in SpawnDelayChoices,
        patience \in PatienceChoices :
          StartGame(maxC, delay, patience) /\ UNCHANGED outsideManager
  \/ ReturnToMenu /\ UNCHANGED outsideManager
  \/ \E deltaTime \in DeltaTimes :
       \E random \in (IF WillSpawn(deltaTime) THEN RandomSamples ELSE {0}) :
         Update(deltaTime, random, MaxCustomerId) /\ UNCHANGED outsideManager
  \/ \E playerCenter \in PlayerCenters, itemType \in ItemType :
        TryServeCustomer(playerCenter, itemType) /\ UNCHANGED outsideManager
  \/ \E i \in 1 .. Len(timers) : TimerFire(i) /\ UNCHANGED outsideManager

Spec == Init /\ [][Next]_vars

\* the same simulation driven by the Game handlers of a player with an inventory
NextGame ==
  \/ \E maxC \in CapChoices, delay \in SpawnDelayChoices,
        patience \in PatienceChoices :
          StartGame(maxC, delay, patience) /\ UNCHANGED outsideManager
  \/ ReturnToMenu /\ UNCHANGED outsideManager
  \/ \E deltaTime \in DeltaTimes :
       \E random \in (IF WillSpawn(deltaTime) THEN RandomSamples ELSE {0}) :
         Update(deltaTime, random, MaxGameCustomerId) /\ UNCHANGED outsideManager
  \/ \E itemType \in ItemType : PickUp(itemType) /\ UNCHANGED outsideManager
  \/ DropItem /\ UNCHANGED outsideManager
  \/ \E playerCenter \in PlayerCenters :
        TryServeCustomers(playerCenter) /\ UNCHANGED outsideManager
  \/ \E i \in 1 .. Len(timers) : TimerFire(i) /\ UNCHANGED outsideManager

SpecGame == Init /\ [][NextGame]_vars

(* ---------------- LevelManager and a solo match ---------------- *)
startLevel(lm, difficulty) ==
  [ state |-> PLAYING, difficulty |-> difficulty,
    timeRemaining |-> levelDuration, customersLost |-> 0 ]

\* LevelManager.update testing the end of the time before the lost customers
LevelManager_update_TimeFirst(lm, deltaTime) ==
  IF lm.state # PLAYING THEN lm
  ELSE LET t == lm.timeRemaining - deltaTime
       IN IF t <= 0
          THEN [lm EXCEPT !.timeRemaining = 0, !.state = WON]
          ELSE IF lm.customersLost >= maxLostCustomers
          THEN [lm EXCEPT !.timeRemaining = t, !.state = LOST]
          ELSE [lm EXCEPT !.timeRemaining = t]

\* LevelManager.update without its test on the state
LevelManager_update_AnyState(lm, deltaTime) ==
  LET t == lm.timeRemaining - deltaTime
  IN IF lm.customersLost >= maxLostCustomers
     THEN [lm EXCEPT !.timeRemaining = t, !.state = LOST]
     ELSE IF t <= 0
     THEN [lm EXCEPT !.timeRemaining = 0, !.state = WON]
     ELSE [lm EXCEPT !.timeRemaining = t]

\* LevelManager.update clamping the time at zero without ending the match
LevelManager_update_NoWon(lm, deltaTime) ==
  IF lm.state # PLAYING THEN lm
  ELSE LET t == lm.timeRemaining - deltaTime
       IN IF lm.customersLost >= maxLostCustomers
          THEN [lm EXCEPT !.timeRemaining = t, !.state = LOST]
          ELSE IF t <= 0
          THEN [lm EXCEPT !.timeRemaining = 0]
          ELSE [lm EXCEPT !.timeRemaining = t]

LevelManager_update(lm, deltaTime) ==
  IF lm.state # PLAYING THEN lm
  ELSE LET t == lm.timeRemaining - deltaTime
       IN IF lm.customersLost >= maxLostCustomers
          THEN [lm EXCEPT !.timeRemaining = t, !.state = LOST]
          ELSE IF t <= 0
          THEN [lm EXCEPT !.timeRemaining = 0, !.state = WON]
          ELSE [lm EXCEPT !.timeRemaining = t]

LevelManager_returnToMenu(lm) ==
  [ state |-> MENU, difficulty |-> "null", timeRemaining |-> 0,
    customersLost |-> 0 ]

\* the difficulties Game.handleMenuInteraction starts a solo game with
SoloDifficulties == { MEDIUM, HARD }
\* the scores a gameState payload is given
PayloadScores == { 0, 7 }
\* the difficulty of the hosted matches
SyncDifficulties == { EASY }

\* Game.handleMenuInteraction on the main menu: startSoloGame(difficulty)
StartSoloGame(difficulty) ==
  /\ levelManager.state = MENU
  /\ StartGame(DifficultyConfig[difficulty].maxCustomers,
               DifficultyConfig[difficulty].customerSpawnDelay,
               DifficultyConfig[difficulty].customerPatience)
  /\ levelManager' = startLevel(levelManager, difficulty)

\* Game.handleEscape outside the menu: returnToMenu()
HandleEscape ==
  /\ levelManager.state # MENU
  /\ ReturnToMenu
  /\ levelManager' = LevelManager_returnToMenu(levelManager)

\* Game.handleInteraction on the end screen: returnToMenu()
EndScreenInteraction ==
  /\ levelManager.state \in {WON, LOST}
  /\ ReturnToMenu
  /\ levelManager' = LevelManager_returnToMenu(levelManager)

\* LevelManager.addLostCustomer left out: the match clock's count is not moved
addLostCustomer_Skipped(lm) == lm

\* LevelManager.addLostCustomer()
addLostCustomer(lm) == [lm EXCEPT !.customersLost = @ + 1]

\* the onCustomerAngry callback of the Game constructor, run once for each of
\* the n customers that CustomerManager.update found newly angry
RECURSIVE onCustomerAngry(_, _)
onCustomerAngry(lm, n) ==
  IF n = 0 THEN lm ELSE onCustomerAngry(addLostCustomer(lm), n - 1)

\* Game.update(deltaTime) in solo mode: levelManager.update, then, while
\* playing, customerManager.update, whose onCustomerAngry callback calls
\* addLostCustomer once for each customer that has just become angry
GameUpdate(deltaTime, random, maxId) ==
  LET lm == LevelManager_update(levelManager, deltaTime)
  IN IF lm.state = PLAYING
     THEN /\ Update(deltaTime, random, maxId)
          /\ levelManager' =
                onCustomerAngry(lm, Len(AngryTimers(
                   AutoSpawn(customers, customerPositions, timeSinceLastSpawn,
                             deltaTime, random).customers,
                   deltaTime,
                   Len(AutoSpawn(customers, customerPositions,
                                 timeSinceLastSpawn, deltaTime,
                                 random).customers))))
     ELSE /\ levelManager' = lm
          /\ lastServe' = NoServe
          /\ UNCHANGED << customers, customerPositions, maxCustomers,
                          spawnDelay, timeSinceLastSpawn, autoSpawn,
                          customerPatience, customersServed, customersLost,
                          timers, nextId, inventory, score >>

\* a solo match from the menu to the end screen and back
NextMatch ==
  \/ \E difficulty \in SoloDifficulties :
        StartSoloGame(difficulty) /\ UNCHANGED outsideGame
  \/ HandleEscape /\ UNCHANGED outsideGame
  \/ EndScreenInteraction /\ UNCHANGED outsideGame
  \/ \E deltaTime \in DeltaTimes :
       \E random \in (IF WillSpawn(deltaTime) THEN MatchRandomSamples ELSE {0}) :
         GameUpdate(deltaTime, random, MaxMatchCustomerId) /\ UNCHANGED outsideGame
  \/ \E i \in 1 .. Len(timers) : TimerFire(i) /\ UNCHANGED outsideManager

SpecMatch == Init /\ [][NextMatch]_vars

(* ---------------- snapshots to the joined peer ---------------- *)
\* getCustomersData: what is sent of every customer
getCustomersData(cs) ==
  [ i \in 1 .. Len(cs) |->
      [ x |-> cs[i].x, y |-> cs[i].y, positionIndex |-> cs[i].positionIndex,
        order |-> cs[i].order, originalOrder |-> cs[i].originalOrder,
        patience |-> cs[i].patience, maxPatience |-> cs[i].maxPatience,
        satisfied |-> cs[i].satisfied, angry |-> cs[i].angry ] ]

\* the while-loop of updateFromNetwork on m = [customers, customerPositions]:
\* pop the last customer and free its seat until at most n are left
RECURSIVE PopLoop(_, _)
PopLoop(m, n) ==
  IF Len(m.customers) > n
  THEN LET removed == m.customers[Len(m.customers)]
       IN PopLoop([ customers |-> SubSeq(m.customers, 1, Len(m.customers) - 1),
                    customerPositions |->
                      [m.customerPositions
                         EXCEPT ![removed.positionIndex].occupied = FALSE] ], n)
  ELSE m

\* the forEach of updateFromNetwork from index i on (i counts from 1)
RECURSIVE SyncLoop(_, _, _)
SyncLoop(m, customersData, i) ==
  IF i > Len(customersData) THEN m
  ELSE LET data == customersData[i]
       IN IF i <= Len(m.customers)
          THEN SyncLoop([m EXCEPT !.customers[i] =
                           [@ EXCEPT !.x = data.x, !.y = data.y,
                                     !.order = data.order,
                                     !.patience = data.patience,
                                     !.satisfied = data.satisfied,
                                     !.angry = data.angry]],
                        customersData, i + 1)
          ELSE LET customer ==
                     [ Customer(0, data.x, data.y, data.originalOrder,
                                data.maxPatience)
                         EXCEPT !.positionIndex = data.positionIndex,
                                !.patience = data.patience,
                                !.satisfied = data.satisfied,
                                !.angry = data.angry,
                                !.order = data.order ]
               IN SyncLoop([ customers |-> Append(m.customers, customer),
                             customerPositions |->
                               [m.customerPositions
                                  EXCEPT ![data.positionIndex].occupied = TRUE] ],
                           customersData, i + 1)

\* updateFromNetwork on m = [customers, customerPositions]
updateFromNetwork(m, customersData) ==
  SyncLoop(PopLoop(m, Len(customersData)), customersData, 1)

\* the gameState payload updateNetworkSync builds
GameStatePayload(lmScore, lm, cs) ==
  [ score |-> lmScore, timeRemaining |-> lm.timeRemaining,
    customersLost |-> lm.customersLost, customers |-> getCustomersData(cs) ]

\* handleGameStateFromHost without its test on the game mode
handleGameStateFromHost_AnyMode(gameMode, g, data) ==
  LET m == updateFromNetwork([ customers |-> g.customers,
                               customerPositions |-> g.customerPositions ],
                             data.customers)
  IN [g EXCEPT !.score = data.score,
               !.timeRemaining = data.timeRemaining,
               !.customersLost = data.customersLost,
               !.customers = m.customers,
               !.customerPositions = m.customerPositions]

\* handleGameStateFromHost storing the remaining time as the abandoned count
handleGameStateFromHost_TimeAsLost(gameMode, g, data) ==
  IF gameMode # MULTI_CLIENT THEN g
  ELSE LET m == updateFromNetwork([ customers |-> g.customers,
                                    customerPositions |-> g.customerPositions ],
                                  data.customers)
       IN [g EXCEPT !.score = data.score,
                    !.timeRemaining = data.timeRemaining,
                    !.customersLost = data.timeRemaining,
                    !.customers = m.customers,
                    !.customerPositions = m.customerPositions]

\* handleGameStateFromHost in a Game of mode gameMode, on g = [score,
\* timeRemaining, customersLost, customers, customerPositions, ...]
handleGameStateFromHost(gameMode, g, data) ==
  IF gameMode # MULTI_CLIENT THEN g
  ELSE LET m == updateFromNetwork([ customers |-> g.customers,
                                    customerPositions |-> g.customerPositions ],
                                  data.customers)
       IN [g EXCEPT !.score = data.score,
                    !.timeRemaining = data.timeRemaining,
                    !.customersLost = data.customersLost,
                    !.customers = m.customers,
                    !.customerPositions = m.customerPositions]

\* the test of Game.update before customerManager.update, on every tick
runsCustomerManager_Always(gameMode) == TRUE

\* the test of Game.update before customerManager.update
runsCustomerManager(gameMode) == gameMode = SOLO \/ gameMode = MULTI_HOST

\* the Game whose snapshots are sent starts a match.  Its customer lists are
\* those of a running simulation: the match is started as startSoloGame
\* starts it (startMultiplayerGame calls levelManager.setMultiplayer, which
\* LevelManager does not define, before it reaches configure)
HostStart(difficulty) ==
  /\ client.state = MENU
  /\ StartSoloGame(difficulty)
  /\ UNCHANGED client

\* the gameStart message arrives: onGameStart calls startMultiplayerGame,
\* which runs resetPlayers, customerManager.reset and startLevel, and stops
\* at the call of levelManager.setMultiplayer
ClientStart ==
  /\ levelManager.state = PLAYING
  /\ client.state = MENU
  /\ client' = [ state |-> PLAYING, difficulty |-> levelManager.difficulty,
                 timeRemaining |-> levelDuration, score |-> 0,
                 customersLost |-> 0, customers |-> << >>,
                 customerPositions |-> ResetPositions(client.customerPositions),
                 lastOp |-> "start" ]
  /\ UNCHANGED << customers, customerPositions, maxCustomers, spawnDelay,
                  timeSinceLastSpawn, autoSpawn, customerPatience,
                  customersServed, customersLost, timers, nextId, inventory,
                  score, lastServe, levelManager >>

\* a gameState message of the host is handled by the joined Game
ApplySnapshot ==
  /\ levelManager.state = PLAYING
  /\ client.state # MENU
  /\ client' = [ handleGameStateFromHost(MULTI_CLIENT, client,
                    GameStatePayload(score, levelManager, customers))
                   EXCEPT !.lastOp = "snapshot" ]
  /\ UNCHANGED << customers, customerPositions, maxCustomers, spawnDelay,
                  timeSinceLastSpawn, autoSpawn, customerPatience,
                  customersServed, customersLost, timers, nextId, inventory,
                  score, lastServe, levelManager >>

\* Game.update(deltaTime) in the joined Game: levelManager.update, then,
\* while playing and if the mode runs the simulation, customerManager.update
\* (never configured there: it only lets the patience of the customers run)
ClientUpdate(deltaTime) ==
  LET lm == LevelManager_update([ state |-> client.state,
                                  difficulty |-> client.difficulty,
                                  timeRemaining |-> client.timeRemaining,
                                  customersLost |-> client.customersLost ],
                                deltaTime)
      runs == lm.state = PLAYING /\ runsCustomerManager(MULTI_CLIENT)
      cs == IF runs
            THEN [ i \in 1 .. Len(client.customers) |->
                     Customer_update(client.customers[i], deltaTime) ]
            ELSE client.customers
      lost == Len(AngryTimers(client.customers, deltaTime,
                              Len(client.customers)))
  IN /\ client.state # MENU
     /\ client' = [client EXCEPT !.state = lm.state,
                                 !.timeRemaining = lm.timeRemaining,
                                 !.customersLost =
                                    IF runs THEN lm.customersLost + lost
                                            ELSE lm.customersLost,
                                 !.customers = cs,
                                 !.lastOp = "tick"]
     /\ UNCHANGED << customers, customerPositions, maxCustomers, spawnDelay,
                     timeSinceLastSpawn, autoSpawn, customerPatience,
                     customersServed, customersLost, timers, nextId, inventory,
                     score, lastServe, levelManager >>

\* the host has left the match: the connection closes, onPlayerLeft calls
\* returnToMenu in the joined Game
ClientPlayerLeft ==
  /\ levelManager.state = MENU
  /\ client.state # MENU
  /\ client' = [ state |-> MENU, difficulty |-> "null", timeRemaining |-> 0,
                 score |-> 0, customersLost |-> 0, customers |-> << >>,
                 customerPositions |-> ResetPositions(client.customerPositions),
                 lastOp |-> "left" ]
  /\ UNCHANGED << customers, customerPositions, maxCustomers, spawnDelay,
                  timeSinceLastSpawn, autoSpawn, customerPatience,
                  customersServed, customersLost, timers, nextId, inventory,
                  score, lastServe, levelManager >>

\* a gameState message handled by the Game that hosts: the payload is what
\* the joined Game holds
HostHandleGameState ==
  LET g == handleGameStateFromHost(MULTI_HOST,
             [ score |-> score, timeRemaining |-> levelManager.timeRemaining,
               customersLost |-> levelManager.customersLost,
               customers |-> customers,
               customerPositions |-> customerPositions ],
             [ score |-> client.score,
               timeRemaining |-> client.timeRemaining,
               customersLost |-> client.customersLost,
               customers |-> getCustomersData(client.customers) ])
  IN /\ levelManager.state = PLAYING
     /\ client.state # MENU
     /\ score' = g.score
     /\ levelManager' = [levelManager EXCEPT
                            !.timeRemaining = g.timeRemaining,
                            !.customersLost = g.customersLost]
     /\ customers' = g.customers
     /\ customerPositions' = g.customerPositions
     /\ lastServe' = [NoServe EXCEPT !.name = "gameState"]
     /\ UNCHANGED client
     /\ UNCHANGED << maxCustomers, spawnDelay, timeSinceLastSpawn, autoSpawn,
                     customerPatience, customersServed, customersLost, timers,
                     nextId, inventory >>

\* a hosted match and the Game that joined it
NextSync ==
  \/ \E difficulty \in SyncDifficulties :
        HostStart(difficulty) /\ UNCHANGED sessionVars
  \/ ClientStart /\ UNCHANGED sessionVars
  \/ \E deltaTime \in DeltaTimes :
       \E random \in (IF WillSpawn(deltaTime) THEN MatchRandomSamples ELSE {0}) :
         GameUpdate(deltaTime, random, MaxSyncCustomerId) /\ UNCHANGED outsideGame
  \/ \E i \in 1 .. Len(timers) : TimerFire(i) /\ UNCHANGED outsideManager
  \/ HandleEscape /\ UNCHANGED outsideGame
  \/ ApplySnapshot /\ UNCHANGED sessionVars
  \/ \E deltaTime \in DeltaTimes :
        ClientUpdate(deltaTime) /\ UNCHANGED sessionVars
  \/ ClientPlayerLeft /\ UNCHANGED sessionVars
  \/ HostHandleGameState /\ UNCHANGED sessionVars

SpecSync == Init /\ [][NextSync]_vars

(* ---------------- vocabulary of the properties ---------------- *)
Ids(cs) == { cs[i].id : i \in 1 .. Len(cs) }
IndexOf(cs, id) == CHOOSE i \in 1 .. Len(cs) : cs[i].id = id
NonTerminal(c) == ~c.satisfied /\ ~c.angry
CanReceive(c, kind) == NonTerminal(c) /\ c.order[kind] > 0
\* the customer an accepted call has just delivered to, before and after it
TargetBefore == customers[IndexOf(customers, lastServe'.target)]
Delivered == lastServe.name = "serve"
Target == customers[IndexOf(customers, lastServe.target)]
NoRecipient ==
  [ success |-> FALSE, points |-> 0, wrongOrder |-> TRUE, correct |-> FALSE,
    completed |-> FALSE, orderSize |-> 0 ]

(* ---------------- C1 ---------------- *)
\* C1: in every reachable state no two customers of the list have the same
\* seat index.
C1_DistinctSeats ==
  \A i, j \in 1 .. Len(customers) :
    i # j => customers[i].positionIndex # customers[j].positionIndex

(* ---------------- C2 ---------------- *)
\* C2: a seat-release callback whose customer is no longer in the list (it was
\* scheduled before a reset) changes neither the list nor any seat when it runs.
C2_StaleReleaseChangesNothing ==
  [][ \A i \in 1 .. Len(timers) :
        ( /\ Len(timers') = Len(timers) - 1
          /\ timers' = RemoveAt(timers, i)
          /\ timers[i].customer \notin Ids(customers) )
        => ( customers' = customers /\ customerPositions' = customerPositions )
    ]_vars

(* ---------------- C3 ---------------- *)
\* C3: no customer is both satisfied and angry, and a customer that is
\* satisfied or angry keeps its flags, remaining order and patience for as
\* long as it stays in the list.
C3_TerminalIsFinal ==
  /\ [](\A i \in 1 .. Len(customers) :
          ~(customers[i].satisfied /\ customers[i].angry))
  /\ [][ \A i \in 1 .. Len(customers) : \A j \in 1 .. Len(customers') :
          ( customers[i].id = customers'[j].id /\ ~NonTerminal(customers[i]) )
          => ( /\ customers'[j].satisfied = customers[i].satisfied
               /\ customers'[j].angry = customers[i].angry
               /\ customers'[j].order = customers[i].order
               /\ customers'[j].patience = customers[i].patience )
       ]_vars

\* a satisfied customer is still listed after an update that made a later
\* customer angry: the update has run over a terminal customer
C3_Witness ==
  \E i, j \in 1 .. Len(timers) :
    /\ i < j
    /\ timers[i].delay = SatisfiedRemoveDelay
    /\ timers[j].delay = AngryRemoveDelay
    /\ timers[i].customer \in Ids(customers)
    /\ timers[j].customer \in Ids(customers)
    /\ customers[IndexOf(customers, timers[i].customer)].satisfied

(* ---------------- C4 ---------------- *)
\* C4: patience stays within 0..maxPatience, no step raises the patience of a
\* non-terminal customer, and a customer is angry as soon as its patience is 0
\* (it turns angry in the step that brings its patience to 0).
C4_PatienceDecays ==
  /\ [](\A i \in 1 .. Len(customers) :
          /\ 0 <= customers[i].patience
          /\ customers[i].patience <= customers[i].maxPatience
          /\ (customers[i].patience = 0 => customers[i].angry))
  /\ [][ \A i \in 1 .. Len(customers) : \A j \in 1 .. Len(customers') :
          customers[i].id = customers'[j].id =>
            /\ ( NonTerminal(customers[i]) =>
                   customers'[j].patience <= customers[i].patience )
            /\ ( (customers'[j].angry /\ ~customers[i].angry) =>
                   (customers[i].patience > 0 /\ customers'[j].patience = 0) )
       ]_vars

\* a customer whose patience has run from its maximum down to 0 and is angry
C4_Witness ==
  \E i \in 1 .. Len(customers) :
    /\ customers[i].angry
    /\ customers[i].patience = 0
    /\ customers[i].maxPatience >= 15

(* ---------------- C5 ---------------- *)
\* C5: an accepted serve call delivers to a customer that is non-terminal and
\* still requires the kind, no such customer being strictly nearer to the
\* player; it lowers that customer's count of that kind by exactly one and
\* changes no other customer.
C5_ServesNearest ==
  [][ lastServe'.name = "serve" =>
        LET kind == lastServe'.item
            pc == lastServe'.playerCenter
        IN /\ lastServe'.target \in Ids(customers)
           /\ CanReceive(TargetBefore, kind)
           /\ \A i \in 1 .. Len(customers) :
                 CanReceive(customers[i], kind) =>
                   Dist(pc, TargetBefore) <= Dist(pc, customers[i])
           /\ Len(customers') = Len(customers)
           /\ \A i \in 1 .. Len(customers) :
                 IF customers[i].id = lastServe'.target
                 THEN /\ customers'[i].id = customers[i].id
                      /\ customers'[i].order[kind] = customers[i].order[kind] - 1
                      /\ \A other \in ItemType \ {kind} :
                            customers'[i].order[other] = customers[i].order[other]
                 ELSE customers'[i] = customers[i]
    ]_vars

\* a delivery has gone to a customer that comes later in the list than
\* another customer who could have received the item but is farther away
C5_Witness ==
  /\ Delivered
  /\ \E i \in 1 .. Len(customers) :
       /\ customers[i].id # lastServe.target
       /\ CanReceive(customers[i], lastServe.item)
       /\ i < IndexOf(customers, lastServe.target)
       /\ Dist(lastServe.playerCenter, customers[i])
            > Dist(lastServe.playerCenter, Target)

(* ---------------- C6 ---------------- *)
\* C6: when several customers who can receive the item are at the same
\* distance from the player, the one with the lowest seat index receives it.
C6_LowestSeatWinsTie ==
  [][ lastServe'.name = "serve" =>
        \A i \in 1 .. Len(customers) :
          ( /\ CanReceive(customers[i], lastServe'.item)
            /\ Dist(lastServe'.playerCenter, customers[i])
                 = Dist(lastServe'.playerCenter, TargetBefore) )
          => TargetBefore.positionIndex <= customers[i].positionIndex
    ]_vars

\* C6 as amended: among the customers who can receive the item and are at the
\* same, smallest distance from the player, the one that comes first in the
\* customer list (the earliest spawned of them) receives it.
C6_FirstListedWinsTie ==
  [][ lastServe'.name = "serve" =>
        \A i \in 1 .. Len(customers) :
          ( /\ CanReceive(customers[i], lastServe'.item)
            /\ Dist(lastServe'.playerCenter, customers[i])
                 = Dist(lastServe'.playerCenter, TargetBefore) )
          => IndexOf(customers, lastServe'.target) <= i
    ]_vars

\* a delivery has gone to the earlier listed of two tied customers although
\* the other one, who could also have received the item, has the lower seat
C6_Witness ==
  /\ Delivered
  /\ \E i \in 1 .. Len(customers) :
       /\ customers[i].id # lastServe.target
       /\ CanReceive(customers[i], lastServe.item)
       /\ Dist(lastServe.playerCenter, customers[i])
            = Dist(lastServe.playerCenter, Target)
       /\ IndexOf(customers, lastServe.target) < i
       /\ customers[i].positionIndex < Target.positionIndex

(* ---------------- C7 ---------------- *)
\* C7: a customer is satisfied exactly when both remaining counts are zero;
\* the remaining counts stay between 0 and the original ones; a step that
\* changes a customer's remaining order lowers exactly one kind by exactly
\* one; and originalOrder never changes.
C7_DeliveriesCountDown ==
  /\ [](\A i \in 1 .. Len(customers) :
          /\ customers[i].satisfied <=>
                (customers[i].order.kebab = 0 /\ customers[i].order.drink = 0)
          /\ \A kind \in ItemType :
                /\ 0 <= customers[i].order[kind]
                /\ customers[i].order[kind] <= customers[i].originalOrder[kind])
  /\ [][ \A i \in 1 .. Len(customers) : \A j \in 1 .. Len(customers') :
          customers[i].id = customers'[j].id =>
            /\ customers'[j].originalOrder = customers[i].originalOrder
            /\ ( customers'[j].order # customers[i].order =>
                   \E kind \in ItemType :
                     /\ customers'[j].order[kind] = customers[i].order[kind] - 1
                     /\ \A other \in ItemType \ {kind} :
                          customers'[j].order[other] = customers[i].order[other] )
       ]_vars

\* the scenario: the second kebab of an order {kebab: 2, drink: 0} has just
\* been delivered
C7_Witness ==
  /\ Delivered
  /\ lastServe.item = KEBAB
  /\ Target.originalOrder = [kebab |-> 2, drink |-> 0]
  /\ Target.order = [kebab |-> 0, drink |-> 0]
  /\ Target.satisfied
  /\ lastServe.result.completed

(* ---------------- C8 ---------------- *)
\* C8: in a serve action of the player, every call made while no non-terminal
\* customer requires the item (the list may be empty) returns the
\* "no recipient" result, and the item stays in the inventory; when that is so
\* for every item, customers, seats, counters, pending releases, inventory and
\* score are unchanged.
C8_NoRecipientNoEffect ==
  [][ lastServe'.name = "serveAll" =>
        LET calls == lastServe'.calls
            n == Len(inventory)
            kept == { i \in 1 .. n : ~calls[n - i + 1].result.success }
        IN /\ Len(calls) = n
           /\ \A k \in 1 .. n :
                 ~calls[k].hadRecipient => calls[k].result = NoRecipient
           /\ Len(inventory') = Cardinality(kept)
           /\ \A i \in kept :
                 inventory'[Cardinality({ h \in kept : h <= i })] = inventory[i]
           /\ ( \A k \in 1 .. n : ~calls[k].hadRecipient ) =>
                 UNCHANGED << customers, customerPositions, customersServed,
                              customersLost, timers, inventory, score >>
    ]_vars

\* a serve action has just had a call with no recipient although a customer
\* is waiting (for the other kind), and another one on an empty list
C8_Witness ==
  /\ lastServe.name = "serveAll"
  /\ \E k \in 1 .. Len(lastServe.calls) :
       /\ ~lastServe.calls[k].hadRecipient
       /\ lastServe.calls[k].result = NoRecipient
  /\ \E i \in 1 .. Len(customers) : NonTerminal(customers[i])
  /\ Len(inventory) > 0

(* ---------------- C9 ---------------- *)
\* C9: a satisfied or angry customer stays in the list with its seat occupied
\* until its own release callback (800 ms after satisfaction, 1000 ms after
\* turning angry) runs: while it is listed its seat is marked occupied and
\* its callback is pending.
C9_SeatHeldUntilRelease ==
  \A i \in 1 .. Len(customers) :
    ~NonTerminal(customers[i]) =>
      /\ customerPositions[customers[i].positionIndex].occupied
      /\ \E k \in 1 .. Len(timers) :
           /\ timers[k].customer = customers[i].id
           /\ timers[k].posIndex = customers[i].positionIndex
           /\ timers[k].delay = IF customers[i].satisfied
                                 THEN SatisfiedRemoveDelay ELSE AngryRemoveDelay

(* ---------------- C10 ---------------- *)
\* C10: a step adds at most one customer, and only when auto-spawn is armed,
\* the spawn timer reaches the spawn delay, fewer than maxCustomers customers
\* are non-terminal and a seat is free; and the number of non-terminal
\* customers never exceeds maxCustomers.
NonTerminalCount(cs) ==
  Cardinality({ i \in 1 .. Len(cs) : NonTerminal(cs[i]) })

PlayingTick ==
  /\ levelManager.state = PLAYING
  /\ levelManager'.state # MENU
  /\ levelManager'.timeRemaining # levelManager.timeRemaining

\* C11: a tick while Playing that starts with an abandoned count >= 5 ends in
\* Lost, whether the remaining time is still > 0 or the tick brings it to
\* <= 0; and Won is entered only by a tick that starts with an abandoned
\* count < 5 and brings the remaining time to <= 0.
C11_LostBeforeWon ==
  [][ /\ ( PlayingTick /\ levelManager.customersLost >= maxLostCustomers )
           => levelManager'.state = LOST
      /\ ( levelManager'.state = WON /\ levelManager.state # WON )
           => /\ PlayingTick
              /\ levelManager.customersLost < maxLostCustomers
              /\ \E deltaTime \in DeltaTimes :
                    levelManager.timeRemaining - deltaTime <= 0
    ]_vars

\* the match was lost by the tick that brought the remaining time to 0
C11_Witness ==
  /\ levelManager.state = LOST
  /\ levelManager.customersLost >= maxLostCustomers
  /\ levelManager.timeRemaining = 0

(* ---------------- C12 ---------------- *)
\* C12: the match state changes only from Menu to Playing, from Playing to Won
\* or Lost, and from Won or Lost to Menu; and a step that starts in Menu, Won
\* or Lost and does not change the state changes neither the remaining time,
\* the score nor the abandoned count.
C12_TransitionsAsClaimed ==
  [][ /\ levelManager'.state # levelManager.state =>
           \/ levelManager.state = MENU /\ levelManager'.state = PLAYING
           \/ levelManager.state = PLAYING /\ levelManager'.state \in {WON, LOST}
           \/ levelManager.state \in {WON, LOST} /\ levelManager'.state = MENU
      /\ ( levelManager.state # PLAYING
            /\ levelManager'.state = levelManager.state )
           => ( levelManager' = levelManager /\ score' = score )
    ]_vars

\* C12 as amended: the same, with the transition from Playing to Menu that
\* returnToMenu makes when the player leaves a running match.
C12_MatchTransitions ==
  [][ /\ levelManager'.state # levelManager.state =>
           \/ levelManager.state = MENU /\ levelManager'.state = PLAYING
           \/ levelManager.state = PLAYING
                /\ levelManager'.state \in {WON, LOST, MENU}
           \/ levelManager.state \in {WON, LOST} /\ levelManager'.state = MENU
      /\ ( levelManager.state # PLAYING
            /\ levelManager'.state = levelManager.state )
           => ( levelManager' = levelManager /\ score' = score )
    ]_vars

\* back in the menu after a match in which customers were lost
C12_Witness ==
  /\ levelManager.state = MENU
  /\ nextId > 1
  /\ \E i \in 1 .. Len(timers) : timers[i].delay = AngryRemoveDelay

(* ---------------- C13 ---------------- *)
\* the step applies a snapshot in the joined Game (the host's state, which
\* the payload is built from, is the same before and after the step)
SnapshotStep == client' # client /\ client'.lastOp = "snapshot"

\* C13: while the joined Game is in a match, its score, remaining time,
\* abandoned count, customer list and seat flags change only in a step that
\* applies a received snapshot.
C13_OnlySnapshotsWrite ==
  [][ ( /\ client.state = PLAYING
        /\ client'.state # MENU
        /\ << client'.score, client'.timeRemaining, client'.customersLost,
              client'.customers, client'.customerPositions >>
             # << client.score, client.timeRemaining, client.customersLost,
                  client.customers, client.customerPositions >> )
      => SnapshotStep
    ]_vars

(* ---------------- C14 ---------------- *)
\* C14: a tick of the joined Game changes neither its customers (none is
\* spawned, no patience runs) nor its seats, and its customer list grows only
\* in a step that applies a snapshot.
C14_NoSimulationOnClient ==
  [][ /\ ( client' # client /\ client'.lastOp = "tick" )
           => /\ client'.customers = client.customers
              /\ client'.customerPositions = client.customerPositions
      /\ Len(client'.customers) > Len(client.customers) => SnapshotStep
    ]_vars

\* the joined Game has just ticked while playing, holding a customer that
\* still waits, with a seat free
C14_Witness ==
  /\ client.lastOp = "tick"
  /\ client.state = PLAYING
  /\ \E i \in 1 .. Len(client.customers) :
       NonTerminal(client.customers[i]) /\ client.customers[i].patience > 0
  /\ \E p \in DOMAIN client.customerPositions :
       ~client.customerPositions[p].occupied

(* ---------------- C15 ---------------- *)
\* C15: after a snapshot with k customers is applied the joined Game holds
\* exactly k customers, and the seats it marks occupied are exactly the seat
\* indices of the k customers of the snapshot.
C15_SeatsFollowSnapshot ==
  [][ SnapshotStep =>
        /\ Len(client'.customers) = Len(customers)
        /\ { p \in DOMAIN client'.customerPositions :
               client'.customerPositions[p].occupied }
             = { customers[i].positionIndex : i \in 1 .. Len(customers) }
    ]_vars

(* ---------------- C16 ---------------- *)
\* C16: after the output of getCustomersData has gone through
\* updateFromNetwork, the i-th customer of the joined Game has the remaining
\* order, the original order and the patience of the host's i-th customer.
C16_RoundTrip ==
  [][ SnapshotStep =>
        /\ Len(client'.customers) = Len(customers)
        /\ \A i \in 1 .. Len(customers) :
              /\ client'.customers[i].order = customers[i].order
              /\ client'.customers[i].originalOrder = customers[i].originalOrder
              /\ client'.customers[i].patience = customers[i].patience
    ]_vars

(* ---------------- C17 ---------------- *)
\* C17: after the joined Game (mode multiClient) has handled a gameState
\* message its score, remaining time and abandoned count are those of the
\* payload, whatever score the payload carries; a Game of another mode that
\* handles one changes nothing.
C17_GameStateHandled ==
  /\ [](\A payloadScore \in PayloadScores :
          LET data == [ GameStatePayload(score, levelManager, customers)
                          EXCEPT !.score = payloadScore ]
          IN /\ handleGameStateFromHost(MULTI_CLIENT, client, data).score
                  = payloadScore
             /\ \A gameMode \in {SOLO, MULTI_HOST} :
                  handleGameStateFromHost(gameMode, client, data) = client)
  /\ [][ /\ SnapshotStep =>
               /\ client'.score = score
               /\ client'.timeRemaining = levelManager.timeRemaining
               /\ client'.customersLost = levelManager.customersLost
         /\ lastServe'.name = "gameState" =>
               UNCHANGED << score, levelManager, customers, customerPositions,
                            customersServed, customersLost, timers >>
       ]_vars

\* the host has just handled a gameState message whose payload differs from
\* its own state, and the joined Game holds an abandoned count it can only
\* have from a snapshot
C17_Witness ==
  /\ lastServe.name = "gameState"
  /\ client.customersLost > 0
  /\ client.timeRemaining # levelManager.timeRemaining
  /\ Len(client.customers) # Len(customers)

(* ---------------- a session of two Games ---------------- *)
\* the difficulties the host chooses in the lobby
NetDifficulties == { EASY, HARD }
\* deltaTime of the updates of a match in a session, in seconds: one step
\* of 15 s
NetDeltaTimes == { 15 }
\* the messages a connection holds at most before the receiver handles them
MaxInFlight == 2

\* the handler name running in the Game p, and the match state it began in
Handler(name, p) ==
  [ name |-> name, peer |-> p, during |-> games[p].levelManager.state ]

\* the variables of the Game played alone and of the snapshot model
outsideSession ==
  << customers, customerPositions, maxCustomers, spawnDelay,
     timeSinceLastSpawn, autoSpawn, customerPatience, customersServed,
     customersLost, timers, nextId, inventory, score, lastServe,
     levelManager, client, link >>

\* the connection of nm has its 'data' and 'close' handlers: the host sets
\* them up when the connection arrives, the client when it opens
HasHandlers(nm) ==
  \/ nm.role = HOST /\ nm.connection # "null"
  \/ nm.role = CLIENT /\ nm.connection = "open"

\* what p gave to connection.send reaches the connection of the other Game,
\* unless that Game has closed it
Sent(p, msgs) ==
  [channel EXCEPT ![Other(p)] =
      IF games[Other(p)].networkManager.connection # "null" /\ ~closing[p]
      THEN @ \o msgs ELSE @]

TypesOf(msgs) == { msgs[i].type : i \in 1 .. Len(msgs) }

Emits(p, msgs) == [NothingEmitted EXCEPT ![p] = TypesOf(msgs)]

\* p's connection is closed by p: what was on its way to p is never handled,
\* and the connection of the other Game, if it is the other end of this
\* one, is closed from afar
ClosedBy(p) ==
  /\ channel' = [channel EXCEPT ![p] = << >>]
  /\ closing' =
       IF games[p].networkManager.connection = "null" THEN closing
       ELSE IF closing[p] THEN [closing EXCEPT ![p] = FALSE]
       ELSE [closing EXCEPT
               ![Other(p)] =
                  games[Other(p)].networkManager.connection # "null"]

\* startMultiplayerGame stopping before levelManager.startLevel
startMultiplayerGame_BeforeStartLevel(g, difficulty) ==
  [g EXCEPT !.customers = << >>,
            !.customerPositions = ResetPositions(g.customerPositions)]

\* Game.startMultiplayerGame(difficulty), which stops at the call of
\* levelManager.setMultiplayer, a method LevelManager does not have:
\* resetPlayers, customerManager.reset and levelManager.startLevel have run
startMultiplayerGame(g, difficulty) ==
  [g EXCEPT !.customers = << >>,
            !.customerPositions = ResetPositions(g.customerPositions),
            !.autoSpawn = FALSE,
            !.levelManager = startLevel(g.levelManager, difficulty),
            !.score = 0]

\* returnToMenu that only tears the session down
Game_returnToMenu_SessionOnly(g) ==
  [g EXCEPT !.networkManager = disconnect(g.networkManager),
            !.menuState = MAIN,
            !.gameMode = SOLO]

\* Game.returnToMenu()
Game_returnToMenu(g) ==
  [g EXCEPT !.levelManager = LevelManager_returnToMenu(g.levelManager),
            !.score = 0,
            !.customers = << >>,
            !.customerPositions = ResetPositions(g.customerPositions),
            !.autoSpawn = FALSE,
            !.networkManager = disconnect(g.networkManager),
            !.menuState = MAIN,
            !.gameMode = SOLO]

\* Game.updateNetworkSync after a step of 15 s (networkSyncInterval is 1/15 s):
\* the messages given to the network manager
updateNetworkSync_AnyMode(g) ==
  IF ~isConnected(g.networkManager) THEN << >>
  ELSE sendPlayerState(g.networkManager, "player")
       \o send(g.networkManager, "gameState",
               GameStatePayload(g.score, g.levelManager, g.customers))

updateNetworkSync(g) ==
  IF ~isConnected(g.networkManager) THEN << >>
  ELSE sendPlayerState(g.networkManager, "player")
       \o (IF g.gameMode = MULTI_HOST
           THEN sendGameState(g.networkManager,
                   GameStatePayload(g.score, g.levelManager, g.customers))
           ELSE << >>)

\* Game.handleMenuInteraction on the main menu, option Multijoueur
OpenMultiMenu(p) ==
  /\ games[p].levelManager.state = MENU
  /\ games[p].menuState = MAIN
  /\ games' = [games EXCEPT ![p].menuState = MULTI_MENU]
  /\ emitted' = NothingEmitted
  /\ UNCHANGED << channel, closing, gameStarts >>

\* option Créer partie: Game.hostGame and NetworkManager.hostGame up to the
\* creation of the peer; a new session begins
HostGame ==
  /\ games[P1].levelManager.state = MENU
  /\ games[P1].menuState = MULTI_MENU
  /\ games' = [games EXCEPT ![P1].menuState = LOBBY_HOST,
                            ![P1].gameMode = MULTI_HOST,
                            ![P1].networkManager.role = HOST,
                            ![P1].networkManager.state = CONNECTING,
                            ![P1].networkManager.sessionCode = HostCode,
                            ![P1].networkManager.peer = TRUE]
  /\ gameStarts' = 0
  /\ emitted' = NothingEmitted
  /\ UNCHANGED << channel, closing >>

\* the 'open' event of the host's peer
PeerOpenHost ==
  /\ games[P1].networkManager.peer
  /\ games[P1].networkManager.role = HOST
  /\ games[P1].networkManager.state = CONNECTING
  /\ games' = [games EXCEPT ![P1].networkManager.state = WAITING]
  /\ emitted' = NothingEmitted
  /\ UNCHANGED << channel, closing, gameStarts >>

\* option Rejoindre
OpenJoinLobby ==
  /\ games[P2].levelManager.state = MENU
  /\ games[P2].menuState = MULTI_MENU
  /\ games' = [games EXCEPT ![P2].menuState = LOBBY_JOIN]
  /\ emitted' = NothingEmitted
  /\ UNCHANGED << channel, closing, gameStarts >>

\* the join lobby with a code of six characters: Game.joinGame and
\* NetworkManager.joinGame up to the creation of the peer (one attempt at a
\* time)
JoinGame ==
  /\ games[P2].levelManager.state = MENU
  /\ games[P2].menuState = LOBBY_JOIN
  /\ games[P2].networkManager.state = DISCONNECTED
  /\ games' = [games EXCEPT ![P2].gameMode = MULTI_CLIENT,
                            ![P2].networkManager.role = CLIENT,
                            ![P2].networkManager.state = CONNECTING,
                            ![P2].networkManager.sessionCode = HostCode,
                            ![P2].networkManager.peer = TRUE]
  /\ emitted' = NothingEmitted
  /\ UNCHANGED << channel, closing, gameStarts >>

\* the 'open' event of the client's peer: peer.connect(sessionCode)
ClientPeerOpen ==
  /\ games[P2].networkManager.role = CLIENT
  /\ games[P2].networkManager.state = CONNECTING
  /\ games[P2].networkManager.connection = "null"
  /\ games' = [games EXCEPT ![P2].networkManager.connection = "pending"]
  /\ emitted' = NothingEmitted
  /\ UNCHANGED << channel, closing, gameStarts >>

\* handleError of joinGame (no host under the code, an error, a timeout):
\* the manager disconnects, the promise is rejected and Game.joinGame falls
\* back to the solo mode
JoinFailed ==
  /\ games[P2].networkManager.role = CLIENT
  /\ games[P2].networkManager.state = CONNECTING
  /\ games' = [games EXCEPT
                 ![P2].networkManager = disconnect(games[P2].networkManager),
                 ![P2].gameMode = SOLO]
  /\ ClosedBy(P2)
  /\ emitted' = NothingEmitted
  /\ UNCHANGED gameStarts

\* the 'connection' event of the host's peer, for the client's connection
\* of this session (the host has no other connection at that time)
HostOnConnection ==
  /\ games[P1].networkManager.peer
  /\ games[P1].networkManager.role = HOST
  /\ games[P1].networkManager.state # CONNECTING
  /\ games[P1].networkManager.connection = "null"
  /\ games[P2].networkManager.connection = "pending"
  /\ ~closing[P2]
  /\ games' = [games EXCEPT ![P1].networkManager.connection = "pending",
                            ![P1].networkManager.state = CONNECTED]
  /\ emitted' = NothingEmitted
  /\ UNCHANGED << channel, closing, gameStarts >>

\* the host's connection becomes open (the host has no 'open' handler)
HostConnOpen ==
  /\ games[P1].networkManager.connection = "pending"
  /\ ~closing[P1]
  /\ games' = [games EXCEPT ![P1].networkManager.connection = "open"]
  /\ emitted' = NothingEmitted
  /\ UNCHANGED << channel, closing, gameStarts >>

\* the 'open' event of the client's connection
ClientConnOpen ==
  /\ games[P2].networkManager.connection = "pending"
  /\ games[P1].networkManager.connection # "null"
  /\ ~closing[P2]
  /\ games' = [games EXCEPT ![P2].networkManager.connection = "open",
                            ![P2].networkManager.state = CONNECTED]
  /\ emitted' = NothingEmitted
  /\ UNCHANGED << channel, closing, gameStarts >>

\* Game.handleMenuInteraction in the host lobby: with a connected player,
\* networkManager.startGame(difficulty), then startMultiplayerGame(difficulty)
LobbyStart(difficulty) ==
  LET r == NetworkManager_startGame(games[P1].networkManager, difficulty)
  IN /\ games[P1].levelManager.state = MENU
     /\ games[P1].menuState = LOBBY_HOST
     /\ games[P1].networkManager.state = CONNECTED
     /\ Len(channel[P2]) + Len(r.sent) <= MaxInFlight
     /\ games' = [games EXCEPT
                    ![P1] = startMultiplayerGame(
                              [games[P1] EXCEPT !.networkManager = r.nm],
                              difficulty)]
     /\ channel' = Sent(P1, r.sent)
     /\ emitted' = Emits(P1, r.sent)
     /\ gameStarts' = gameStarts + Len(r.sent)
     /\ UNCHANGED closing

\* the 'data' event of p's connection: handleReceivedData(data)
Deliver(p) ==
  LET data == Head(channel[p])
      g == games[p]
      flat == [ score |-> g.score,
                timeRemaining |-> g.levelManager.timeRemaining,
                customersLost |-> g.levelManager.customersLost,
                customers |-> g.customers,
                customerPositions |-> g.customerPositions ]
      h == handleGameStateFromHost(g.gameMode, flat, data.payload)
  IN /\ channel[p] # << >>
     /\ HasHandlers(g.networkManager)
     /\ g.networkManager.connection = "open"
     /\ games' =
          [games EXCEPT ![p] =
             IF data.type = "gameStart"
             THEN startMultiplayerGame(
                    [g EXCEPT !.networkManager.state = IN_GAME],
                    data.payload.difficulty)
             ELSE IF data.type = "gameState"
             THEN [g EXCEPT !.score = h.score,
                            !.levelManager.timeRemaining = h.timeRemaining,
                            !.levelManager.customersLost = h.customersLost,
                            !.customers = h.customers,
                            !.customerPositions = h.customerPositions]
             ELSE [g EXCEPT !.networkManager.remotePlayerData = data.payload]]
     /\ channel' = [channel EXCEPT ![p] = Tail(@)]
     /\ emitted' = NothingEmitted
     /\ UNCHANGED << closing, gameStarts >>

\* Game.update(deltaTime) of a Game in a match: levelManager.update, then,
\* while playing, updateNetworkSync (the customer manager of a multiplayer
\* match is never configured and holds no customer of its own)
NetGameUpdate(p, deltaTime) ==
  LET lm == LevelManager_update(games[p].levelManager, deltaTime)
      g == [games[p] EXCEPT !.levelManager = lm]
      msgs == IF lm.state = PLAYING THEN updateNetworkSync(g) ELSE << >>
  IN /\ games[p].levelManager.state = PLAYING
     /\ Len(channel[Other(p)]) + Len(msgs) <= MaxInFlight
     /\ games' = [games EXCEPT ![p] = g]
     /\ channel' = Sent(p, msgs)
     /\ emitted' = Emits(p, msgs)
     /\ UNCHANGED << closing, gameStarts >>

\* Game.handleEscape in a match or on its end screen: returnToMenu()
EscapeMatch(p) ==
  /\ games[p].levelManager.state # MENU
  /\ games' = [games EXCEPT ![p] = Game_returnToMenu(games[p])]
  /\ ClosedBy(p)
  /\ emitted' = NothingEmitted
  /\ UNCHANGED gameStarts

\* Game.handleEscape in a menu other than the main one: the manager
\* disconnects and the main menu comes back. Where the closed connection
\* had a 'close' handler and the library calls it for a local close,
\* onPlayerLeft has run returnToMenu, which resets the game mode as well.
EscapeMenu(p) ==
  /\ games[p].levelManager.state = MENU
  /\ games[p].menuState # MAIN
  /\ \E gameMode \in { games[p].gameMode } \cup
                     (IF HasHandlers(games[p].networkManager)
                      THEN { SOLO } ELSE {}) :
       games' = [games EXCEPT
                   ![p].networkManager = disconnect(games[p].networkManager),
                   ![p].menuState = MAIN,
                   ![p].gameMode = gameMode]
  /\ ClosedBy(p)
  /\ emitted' = NothingEmitted
  /\ UNCHANGED gameStarts

\* Game.handleInteraction on the end screen: returnToMenu()
NetEndScreenInteraction(p) ==
  /\ games[p].levelManager.state \in {WON, LOST}
  /\ games' = [games EXCEPT ![p] = Game_returnToMenu(games[p])]
  /\ ClosedBy(p)
  /\ emitted' = NothingEmitted
  /\ UNCHANGED gameStarts

\* the 'close' event of p's connection: the state becomes disconnected and
\* onPlayerLeft calls Game.returnToMenu
ConnClosed(p) ==
  /\ closing[p]
  /\ HasHandlers(games[p].networkManager)
  /\ games' = [games EXCEPT ![p] = Game_returnToMenu(games[p])]
  /\ channel' = [channel EXCEPT ![p] = << >>]
  /\ closing' = [closing EXCEPT ![p] = FALSE]
  /\ emitted' = NothingEmitted
  /\ UNCHANGED gameStarts

NextNet ==
  \/ \E p \in Peers :
        /\ OpenMultiMenu(p)
        /\ lastHandler' = Handler("menu", p)
        /\ UNCHANGED outsideSession
  \/ /\ HostGame
     /\ lastHandler' = Handler("hostGame", P1)
     /\ UNCHANGED outsideSession
  \/ /\ PeerOpenHost
     /\ lastHandler' = Handler("peerOpen", P1)
     /\ UNCHANGED outsideSession
  \/ /\ OpenJoinLobby
     /\ lastHandler' = Handler("menu", P2)
     /\ UNCHANGED outsideSession
  \/ /\ JoinGame
     /\ lastHandler' = Handler("joinGame", P2)
     /\ UNCHANGED outsideSession
  \/ /\ ClientPeerOpen
     /\ lastHandler' = Handler("peerOpen", P2)
     /\ UNCHANGED outsideSession
  \/ /\ JoinFailed
     /\ lastHandler' = Handler("joinFailed", P2)
     /\ UNCHANGED outsideSession
  \/ /\ HostOnConnection
     /\ lastHandler' = Handler("connection", P1)
     /\ UNCHANGED outsideSession
  \/ /\ HostConnOpen
     /\ lastHandler' = Handler("connOpen", P1)
     /\ UNCHANGED outsideSession
  \/ /\ ClientConnOpen
     /\ lastHandler' = Handler("connOpen", P2)
     /\ UNCHANGED outsideSession
  \/ \E difficulty \in NetDifficulties :
        /\ LobbyStart(difficulty)
        /\ lastHandler' = Handler("lobbyStart", P1)
        /\ UNCHANGED outsideSession
  \/ \E p \in Peers :
        /\ Deliver(p)
        /\ lastHandler' = Handler("data", p)
        /\ UNCHANGED outsideSession
  \/ \E p \in Peers, deltaTime \in NetDeltaTimes :
        /\ NetGameUpdate(p, deltaTime)
        /\ lastHandler' = Handler("update", p)
        /\ UNCHANGED outsideSession
  \/ \E p \in Peers :
        /\ EscapeMatch(p)
        /\ lastHandler' = Handler("escape", p)
        /\ UNCHANGED outsideSession
  \/ \E p \in Peers :
        /\ EscapeMenu(p)
        /\ lastHandler' = Handler("escape", p)
        /\ UNCHANGED outsideSession
  \/ \E p \in Peers :
        /\ NetEndScreenInteraction(p)
        /\ lastHandler' = Handler("endScreen", p)
        /\ UNCHANGED outsideSession
  \/ \E p \in Peers :
        /\ ConnClosed(p)
        /\ lastHandler' = Handler("close", p)
        /\ UNCHANGED outsideSession

SpecNet == Init /\ [][NextNet]_vars

NetTypeOK ==
  /\ gameStarts \in 0 .. 2
  /\ \A p \in Peers : Len(channel[p]) <= MaxInFlight

(* ---------------- C18 ---------------- *)
\* C18: a gameState message is given to a connection only by a Game whose
\* network role is host, which is connected and whose match state is
\* Playing; a Game whose role is client never emits one, and a network
\* manager whose role is not host sends nothing in sendGameState.
C18_GameStateOnlyFromPlayingHost ==
  /\ \A p \in Peers :
       /\ "gameState" \in emitted[p] =>
            /\ games[p].networkManager.role = HOST
            /\ isConnected(games[p].networkManager)
            /\ games[p].levelManager.state = PLAYING
       /\ games[p].networkManager.role = CLIENT =>
            "gameState" \notin emitted[p]
  /\ \A p \in Peers, role \in { NONE, CLIENT } :
       sendGameState([games[p].networkManager EXCEPT !.role = role],
                     "payload") = << >>

\* the host has just emitted a playerState and a gameState message, and a
\* playerState message emitted by the client is on its way to the host
C18_Witness ==
  /\ emitted[P1] = { "playerState", "gameState" }
  /\ games[P2].networkManager.role = CLIENT
  /\ games[P2].levelManager.state = PLAYING
  /\ \E i \in 1 .. Len(channel[P1]) : channel[P1][i].type = "playerState"

(* ---------------- C19 ---------------- *)
NetworkRoles == { NONE, HOST, CLIENT }
NetworkStates == { DISCONNECTED, CONNECTING, WAITING, CONNECTED, IN_GAME }
Connections == { "null", "pending", "open" }

\* C19: within one session the host gives at most one gameStart message to
\* its connection. startGame returns true only with the role host in the
\* state connected: the state becomes inGame and the only message it sends
\* is gameStart. With any other role or state it returns false, sends
\* nothing and leaves the manager as it was.
C19_GameStartAtMostOnce ==
  /\ [](gameStarts <= 1)
  /\ [](\A role \in NetworkRoles, state \in NetworkStates,
           connection \in Connections, difficulty \in NetDifficulties :
          LET nm == [games[P1].networkManager EXCEPT !.role = role,
                                                    !.state = state,
                                                    !.connection = connection]
              r == NetworkManager_startGame(nm, difficulty)
          IN IF role = HOST /\ state = CONNECTED
             THEN /\ r.result
                  /\ r.nm = [nm EXCEPT !.state = IN_GAME]
                  /\ TypesOf(r.sent) \subseteq { "gameStart" }
                  /\ connection = "open" => Len(r.sent) = 1
             ELSE /\ ~r.result
                  /\ r.sent = << >>
                  /\ r.nm = nm)
  /\ [][ \A p \in Peers :
           "gameStart" \in emitted'[p] =>
              /\ games[p].networkManager.role = HOST
              /\ games[p].networkManager.state = CONNECTED
              /\ games'[p].networkManager.state = IN_GAME
              /\ gameStarts = 0
              /\ gameStarts' = 1
       ]_vars

\* the host of a session has just confirmed the start: a gameStart message
\* has been given to its connection and its state is inGame
C19_Witness ==
  /\ gameStarts = 1
  /\ "gameStart" \in emitted[P1]
  /\ games[P1].networkManager.state = IN_GAME
  /\ \E i \in 1 .. Len(channel[P2]) : channel[P2][i].type = "gameStart"

(* ---------------- C20 ---------------- *)
\* the step in which the client handles the gameStart message: the message
\* leaves the connection, which stays open
GameStartDelivered ==
  /\ channel[P2] # << >>
  /\ Head(channel[P2]).type = "gameStart"
  /\ channel'[P2] = Tail(channel[P2])
  /\ games'[P2].networkManager.connection = "open"

InMatch(g, difficulty) ==
  /\ g.networkManager.state = IN_GAME
  /\ g.levelManager.state = PLAYING
  /\ g.levelManager.difficulty = difficulty

AllOccupied ==
  [ i \in DOMAIN calculatePositions |->
      [calculatePositions[i] EXCEPT !.occupied = TRUE] ]

\* the Game g in the menu, without customer, taken seat or session
TornDown(g) ==
  /\ g.levelManager.state = MENU
  /\ g.customers = << >>
  /\ \A i \in DOMAIN g.customerPositions : ~g.customerPositions[i].occupied
  /\ g.networkManager.role = NONE
  /\ g.networkManager.state = DISCONNECTED

\* C21: when the close event of the connection is handled by a Game whose
\* match is being played, that Game is in the menu afterwards, without
\* customers or occupied seats, with the role none and the state
\* disconnected; returnToMenu gives that state whatever customers and seats
\* the Game holds.
C21_CloseEndsMatch ==
  /\ [](\A p \in Peers, order \in { choices[1], choices[6] } :
          TornDown(Game_returnToMenu(
            [games[p] EXCEPT
               !.customers = << Customer(1, startX, spotY + 5, order, 20) >>,
               !.customerPositions = AllOccupied])))
  /\ [][ \A p \in Peers :
           lastHandler' = [ name |-> "close", peer |-> p,
                            during |-> PLAYING ]
           => TornDown(games'[p])
       ]_vars

\* the host has left a running match and the client, which was playing, has
\* just handled the close event of its connection
C21_Witness ==
  /\ lastHandler = [ name |-> "close", peer |-> P2, during |-> PLAYING ]
  /\ TornDown(games[P2])
  /\ games[P1].levelManager.state = MENU

(* ---------------- hostGame and joinGame of one NetworkManager ---------------- *)
\* the calls of hostGame and joinGame that are followed at a time: the last
\* one made and the earlier ones that still have a timer to run
MaxCalls == 2
\* the time, in seconds, up to which the manager is followed
MaxTime == 30
\* the retries of hostGame that are counted one by one
MaxHostRetries == 2
\* the time between two looks at the clock, in seconds
TimeStep == 10

Min(a, b) == IF a <= b THEN a ELSE b

\* a call of hostGame or joinGame at the time now: its promise (status,
\* error, and how often resolve or reject has been called), the
\* connectionResolved flag of joinGame, whether its peer has opened, the
\* times at which its timers are due (-1: none, or fired), the retries of
\* hostGame, and whether disconnect() has run since it was made
NewCall(kind, now) ==
  [ kind |-> kind, status |-> "pending", error |-> "none", settles |-> 0,
    connectionResolved |-> FALSE, peerOpened |-> FALSE,
    globalAt |-> IF kind = "join" THEN now + GlobalTimeout ELSE -1,
    peerAt |-> -1, retries |-> 0, disconnected |-> FALSE ]

\* resolve or reject of the promise of the call c
Settle(c, status, error) ==
  [c EXCEPT !.status = IF @ = "pending" THEN status ELSE @,
            !.error = IF c.status = "pending" THEN error ELSE @,
            !.settles = Min(@ + 1, 2)]

\* disconnect() has run: every call made so far has seen it
Disconnected(calls) ==
  [ i \in DOMAIN calls |-> [calls[i] EXCEPT !.disconnected = TRUE] ]

\* handleError of joinGame without the connectionResolved flag
handleError_Unguarded(lk, i, error) ==
  [lk EXCEPT
     !.nm = disconnect([lk.nm EXCEPT !.state = DISCONNECTED]),
     !.calls = [ Disconnected(lk.calls) EXCEPT
                   ![i] = Settle([lk.calls[i] EXCEPT
                                    !.connectionResolved = TRUE],
                                 "rejected", error) ]]

\* handleError(err, message) of the call i of joinGame
handleError(lk, i, error) ==
  IF lk.calls[i].connectionResolved THEN lk
  ELSE [lk EXCEPT
          !.nm = disconnect([lk.nm EXCEPT !.state = DISCONNECTED]),
          !.calls = [ Disconnected(lk.calls) EXCEPT
                        ![i] = Settle([lk.calls[i] EXCEPT
                                         !.connectionResolved = TRUE],
                                      "rejected", error) ]]

\* the 'error' event of the peer of the call i of hostGame: with
\* 'unavailable-id' a new code, peer.destroy() and hostGame() again, whose
\* promise settles the one of this call; otherwise a rejection
hostPeerError(lk, i, type) ==
  IF type = "unavailable-id"
  THEN [lk EXCEPT !.nm.role = HOST, !.nm.state = CONNECTING,
                  !.nm.sessionCode = HostCode, !.nm.peer = TRUE,
                  !.calls[i].peerOpened = FALSE,
                  !.calls[i].retries = Min(@ + 1, MaxHostRetries)]
  ELSE [lk EXCEPT !.nm.state = DISCONNECTED,
                  !.calls[i] = Settle(@, "rejected", type)]

\* the 'error' event of the peer of the call i of joinGame
joinPeerError(lk, i, type) ==
  IF type = "peer-unavailable"
  THEN handleError(lk, i, "Code de session invalide")
  ELSE handleError(lk, i, type)

RECURSIVE SelectLive(_)
\* the calls that still have a timer whose callback can act: both callbacks
\* return at once when connectionResolved is set
SelectLive(calls) ==
  IF calls = << >> THEN << >>
  ELSE IF /\ ~Head(calls).connectionResolved
          /\ Head(calls).globalAt # -1 \/ Head(calls).peerAt # -1
  THEN << Head(calls) >> \o SelectLive(Tail(calls))
  ELSE SelectLive(Tail(calls))

\* the last call made, which owns the peer of the manager
Current == Len(link.calls)
HasCurrent(kind) ==
  /\ Current > 0
  /\ link.calls[Current].kind = kind
  /\ link.nm.peer

\* a timer is due
TimerDue ==
  \E i \in DOMAIN link.calls :
     \/ link.calls[i].globalAt # -1 /\ link.calls[i].globalAt <= link.now
     \/ link.calls[i].peerAt # -1 /\ link.calls[i].peerAt <= link.now

\* the variables outside the manager that is followed alone
outsideLink ==
  << customers, customerPositions, maxCustomers, spawnDelay,
     timeSinceLastSpawn, autoSpawn, customerPatience, customersServed,
     customersLost, timers, nextId, inventory, score, lastServe,
     levelManager, client, games, channel, closing, emitted, gameStarts,
     lastHandler >>


\* Game.hostGame: networkManager.hostGame() up to the creation of the peer,
\* on a manager that disconnect() has left
LinkHostGame ==
  /\ link.nm = disconnect(link.nm)
  /\ Len(SelectLive(link.calls)) < MaxCalls
  /\ link.now + GlobalTimeout <= MaxTime
  /\ link' = ([link EXCEPT
                    !.nm.role = HOST, !.nm.state = CONNECTING,
                    !.nm.sessionCode = HostCode, !.nm.peer = TRUE,
                    !.calls = Append(SelectLive(@),
                                     NewCall("host", link.now))])

\* Game.joinGame(code): networkManager.joinGame(code) up to the creation of
\* the peer and the start of the global timer, on a manager that
\* disconnect() has left
LinkJoinGame(code) ==
  /\ link.nm = disconnect(link.nm)
  /\ Len(SelectLive(link.calls)) < MaxCalls
  /\ link.now + GlobalTimeout <= MaxTime
  /\ link' = ([link EXCEPT
                    !.nm.role = CLIENT, !.nm.state = CONNECTING,
                    !.nm.sessionCode = code, !.nm.peer = TRUE,
                    !.calls = Append(SelectLive(@),
                                     NewCall("join", link.now))])

\* the 'open' event of the host's peer: the promise resolves
LinkHostPeerOpen ==
  /\ HasCurrent("host")
  /\ ~link.calls[Current].peerOpened
  /\ link.nm.state = CONNECTING
  /\ link' = ([link EXCEPT
                    !.nm.state = WAITING,
                    !.calls[Current] =
                       Settle([@ EXCEPT !.peerOpened = TRUE],
                              "resolved", "none")])

\* the 'error' event of the host's peer; 'unavailable-id' comes before the
\* peer opens
LinkHostPeerError(type) ==
  /\ HasCurrent("host")
  /\ link.nm.state # DISCONNECTED
  /\ type = "unavailable-id" => ~link.calls[Current].peerOpened
  /\ link' = (hostPeerError(link, Current, type))

\* the 'connection' event of the host's peer
LinkHostConnection ==
  /\ HasCurrent("host")
  /\ link.calls[Current].peerOpened
  /\ link.nm.state = WAITING
  /\ link' = ([link EXCEPT !.nm.connection = "pending",
                              !.nm.state = CONNECTED])

\* the host's connection becomes open
LinkHostConnOpen ==
  /\ HasCurrent("host")
  /\ link.nm.connection = "pending"
  /\ link' = ([link EXCEPT !.nm.connection = "open"])

\* the 'open' event of the client's peer: peer.connect(sessionCode), the
\* handlers of the connection and the start of the peer-connection timer;
\* or no connection object, and handleError
LinkJoinPeerOpen(created) ==
  /\ HasCurrent("join")
  /\ ~link.calls[Current].peerOpened
  /\ link.calls[Current].status = "pending"
  /\ link' =
       (IF created
           THEN [link EXCEPT
                   !.nm.connection = "pending",
                   !.calls[Current].peerOpened = TRUE,
                   !.calls[Current].peerAt = link.now + PeerTimeout]
           ELSE handleError([link EXCEPT !.calls[Current].peerOpened = TRUE],
                            Current, "Failed to create connection"))

\* the 'error' event of the client's peer
LinkJoinPeerError(type) ==
  /\ HasCurrent("join")
  /\ type = "peer-unavailable" => link.nm.connection = "pending"
  /\ link' = (joinPeerError(link, Current, type))

\* the 'open' event of the client's connection
LinkJoinConnOpen ==
  /\ HasCurrent("join")
  /\ link.nm.connection = "pending"
  /\ link' =
       (IF link.calls[Current].connectionResolved
           THEN [link EXCEPT !.nm.connection = "open"]
           ELSE [link EXCEPT
                   !.nm.connection = "open",
                   !.nm.state = CONNECTED,
                   !.calls[Current] =
                      Settle([@ EXCEPT !.connectionResolved = TRUE],
                             "resolved", "none")])

\* the 'error' event of the client's connection
LinkJoinConnError ==
  /\ HasCurrent("join")
  /\ link.nm.connection # "null"
  /\ link' = (handleError(link, Current, "connection"))

\* the 'close' event of the connection: the state becomes disconnected and
\* onPlayerLeft runs Game.returnToMenu, which calls disconnect()
LinkConnClose ==
  /\ HasHandlers(link.nm)
  /\ link' = ([link EXCEPT
                    !.nm = disconnect([link.nm EXCEPT
                                         !.state = DISCONNECTED]),
                    !.calls = Disconnected(@)])

\* the test of the global timer with the state waiting in place of connecting
globalTimeoutApplies_Waiting(lk, i) ==
  ~lk.calls[i].connectionResolved /\ lk.nm.state = WAITING

\* the tests of the two timers of the call i of joinGame
globalTimeoutApplies(lk, i) ==
  ~lk.calls[i].connectionResolved /\ lk.nm.state = CONNECTING

peerTimeoutApplies(lk, i) ==
  /\ ~lk.calls[i].connectionResolved
  /\ lk.nm.connection # "null"
  /\ lk.nm.connection # "open"

\* the callback of the global timer of the call i of joinGame
LinkGlobalTimer(i) ==
  /\ link.calls[i].globalAt # -1
  /\ link.calls[i].globalAt <= link.now
  /\ link' =
       (LET lk == [link EXCEPT !.calls[i].globalAt = -1]
           IN IF globalTimeoutApplies(lk, i)
              THEN handleError(lk, i, "Connection timeout")
              ELSE lk)

\* the callback of the peer-connection timer of the call i of joinGame
LinkPeerTimer(i) ==
  /\ link.calls[i].peerAt # -1
  /\ link.calls[i].peerAt <= link.now
  /\ link' =
       (LET lk == [link EXCEPT !.calls[i].peerAt = -1]
           IN IF peerTimeoutApplies(lk, i)
              THEN handleError(lk, i, "Peer connection timeout - host may not exist")
              ELSE lk)

\* time passes, once the timers that are due have run
LinkTick ==
  /\ ~TimerDue
  /\ link.now + TimeStep <= MaxTime
  /\ link' = ([link EXCEPT !.now = @ + TimeStep])

\* Game.handleEscape in a lobby: disconnect()
LinkDisconnect ==
  /\ Current > 0
  /\ ~link.calls[Current].disconnected
  /\ link' = ([link EXCEPT !.nm = disconnect(link.nm),
                              !.calls = Disconnected(@)])

NextLink ==
  \/ LinkHostGame /\ UNCHANGED outsideLink
  \/ \E code \in JoinCodes : LinkJoinGame(code) /\ UNCHANGED outsideLink
  \/ LinkHostPeerOpen /\ UNCHANGED outsideLink
  \/ \E type \in { "unavailable-id", "network" } :
        LinkHostPeerError(type) /\ UNCHANGED outsideLink
  \/ LinkHostConnection /\ UNCHANGED outsideLink
  \/ LinkHostConnOpen /\ UNCHANGED outsideLink
  \/ \E created \in BOOLEAN : LinkJoinPeerOpen(created) /\ UNCHANGED outsideLink
  \/ \E type \in { "peer-unavailable", "network" } :
        LinkJoinPeerError(type) /\ UNCHANGED outsideLink
  \/ LinkJoinConnOpen /\ UNCHANGED outsideLink
  \/ LinkJoinConnError /\ UNCHANGED outsideLink
  \/ LinkConnClose /\ UNCHANGED outsideLink
  \/ \E i \in DOMAIN link.calls : LinkGlobalTimer(i) /\ UNCHANGED outsideLink
  \/ \E i \in DOMAIN link.calls : LinkPeerTimer(i) /\ UNCHANGED outsideLink
  \/ LinkTick /\ UNCHANGED outsideLink
  \/ LinkDisconnect /\ UNCHANGED outsideLink

SpecLink == Init /\ [][NextLink]_vars

\* time passes and the callbacks of the timers that are due run
SpecLinkLive ==
  /\ Init
  /\ [][NextLink]_vars
  /\ WF_vars(LinkTick /\ UNCHANGED outsideLink)
  /\ WF_vars(\E i \in DOMAIN link.calls :
               LinkGlobalTimer(i) /\ UNCHANGED outsideLink)
  /\ WF_vars(\E i \in DOMAIN link.calls :
               LinkPeerTimer(i) /\ UNCHANGED outsideLink)

LinkTypeOK ==
  /\ link.now \in 0 .. MaxTime
  /\ Len(link.calls) <= MaxCalls
  /\ \A i \in DOMAIN link.calls : link.calls[i].retries <= MaxHostRetries

(* ---------------- C22 ---------------- *)
\* C22: hostGame retries after an 'unavailable-id' error only a bounded
\* number of times: once MaxHostRetries retries have been made, a further
\* collision makes the call reject instead of retrying.
C22_RetriesBounded ==
  \A i \in DOMAIN link.calls :
     ( /\ link.calls[i].kind = "host"
       /\ link.calls[i].status = "pending"
       /\ link.calls[i].retries >= MaxHostRetries )
     => hostPeerError(link, i, "unavailable-id").calls[i].status = "rejected"

(* ---------------- C23 ---------------- *)
InvalidCode == "Code de session invalide"
TimeoutErrors == { "Connection timeout", "Peer connection timeout - host may not exist" }

\* the manager after disconnect(): no role, no state, no code
FullyDisconnected(nm) ==
  /\ nm.role = NONE
  /\ nm.state = DISCONNECTED
  /\ nm.sessionCode = "null"

\* C23: resolve or reject of a call of joinGame is called at most once. A
\* 'peer-unavailable' error of the peer rejects a call that is not settled
\* with the invalid-session-code error, which no timer and no other error
\* gives; and in the step that rejects a call of joinGame the manager ends
\* with the role none, the state disconnected and no session code.
C23_JoinSettlesOnce ==
  /\ [](\A i \in DOMAIN link.calls :
          link.calls[i].kind = "join" =>
            /\ link.calls[i].settles <= 1
            /\ link.calls[i].status = "rejected" =>
                 link.calls[i].error # "none"
            /\ ~link.calls[i].connectionResolved =>
                 /\ joinPeerError(link, i, "peer-unavailable").calls[i].error
                      = InvalidCode
                 /\ \A e \in TimeoutErrors \cup { "network", "connection" } :
                      /\ joinPeerError(link, i, e).calls[i].error = e
                      /\ e # InvalidCode)
  /\ [][ \A i \in DOMAIN link.calls :
           ( /\ link.calls[i].kind = "join"
             /\ link.calls[i].status = "pending"
             /\ i \in DOMAIN link'.calls
             /\ link'.calls[i].status = "rejected" )
           => FullyDisconnected(link'.nm)
       ]_vars

\* a call of joinGame has been rejected with the invalid-session-code
\* error, its two timers have run since, it has settled once and the
\* manager is disconnected
C23_Witness ==
  /\ Current > 0
  /\ link.calls[Current].kind = "join"
  /\ link.calls[Current].status = "rejected"
  /\ link.calls[Current].error = InvalidCode
  /\ link.calls[Current].settles = 1
  /\ link.calls[Current].globalAt = -1
  /\ link.calls[Current].peerAt = -1
  /\ link.now >= GlobalTimeout
  /\ FullyDisconnected(link.nm)

(* ---------------- C24 ---------------- *)
\* the call i of joinGame is not settled and disconnect() has not run
\* since it was made
Waiting(lk, i) ==
  /\ i \in DOMAIN lk.calls
  /\ lk.calls[i].kind = "join"
  /\ lk.calls[i].status = "pending"
  /\ ~lk.calls[i].disconnected

NetworkManagers ==
  [ peer : BOOLEAN, connection : Connections, role : NetworkRoles,
    state : NetworkStates, sessionCode : { "null", HostCode } \cup JoinCodes,
    remotePlayerData : { "null", "player" } ]

\* the handlers of a session that end with a call of disconnect()
DisconnectingHandlers == { "escape", "close", "joinFailed", "endScreen" }

\* C25: from every role and state of a session, disconnect() leaves the role
\* none, the state disconnected, the session code null, no peer, no
\* connection and no stored snapshot of the remote player; a second call
\* changes nothing; every handler of a session that calls disconnect() ends
\* in that state.
C25_DisconnectResets ==
  /\ [](\A nm \in NetworkManagers :
          /\ disconnect(nm).role = NONE
          /\ disconnect(nm).state = DISCONNECTED
          /\ disconnect(nm).sessionCode = "null"
          /\ ~disconnect(nm).peer
          /\ disconnect(nm).connection = "null"
          /\ disconnect(nm).remotePlayerData = "null"
          /\ disconnect(disconnect(nm)) = disconnect(nm))
  /\ [][ lastHandler'.name \in DisconnectingHandlers
         => games'[lastHandler'.peer].networkManager = NewNetworkManager
       ]_vars

\* the host has left a match with Escape while connected, with a snapshot
\* of the remote player stored, and its manager is as new
C25_Witness ==
  /\ lastHandler = [ name |-> "escape", peer |-> P1, during |-> PLAYING ]
  /\ games[P1].networkManager = NewNetworkManager
  /\ games[P2].networkManager.remotePlayerData = "player"
  /\ games[P2].networkManager.state = IN_GAME

(* ---------------- C26 ---------------- *)
\* C26: send(type, payload) with no connection or with a connection that is
\* not open gives nothing to the connection, whatever the role and the
\* state, and so do sendPlayerState and sendGameState; a handler of a Game
\* whose connection is not open emits no message and puts none on the way to
\* the other Game.
C26_SendNeedsOpenConnection ==
  /\ [](\A nm \in NetworkManagers :
          nm.connection # "open" =>
             /\ \A type \in { "playerState", "gameState", "gameStart" } :
                   send(nm, type, "player") = << >>
             /\ sendPlayerState(nm, "player") = << >>
             /\ sendGameState(nm, "player") = << >>)
  /\ [][ \A p \in Peers :
           games[p].networkManager.connection # "open" =>
              /\ emitted'[p] = {}
              /\ Len(channel'[Other(p)]) <= Len(channel[Other(p)])
       ]_vars

\* the host has started the match from its lobby before its connection
\* opened: startGame has changed the state and its send emitted nothing
C26_Witness ==
  /\ lastHandler.name = "lobbyStart"
  /\ games[P1].networkManager.state = IN_GAME
  /\ games[P1].networkManager.connection = "pending"
  /\ emitted[P1] = {}
  /\ channel[P2] = << >>

(* ---------------- C27 ---------------- *)
\* the fields of the customer manager that reset() writes
ResetFields ==
  << customers, customerPositions, timeSinceLastSpawn, autoSpawn,
     customersServed, customersLost >>

\* the customer manager as reset() leaves it
IsReset ==
  /\ customers = << >>
  /\ \A i \in DOMAIN customerPositions : ~customerPositions[i].occupied
  /\ timeSinceLastSpawn = 0
  /\ ~autoSpawn
  /\ customersServed = 0
  /\ customersLost = 0

\* C27: reset() leaves no customer, every seat free, the served and lost
\* counters and the spawn timer at zero and the auto-spawn disarmed; until
\* the next configure() the manager stays so, whatever runs (a second
\* reset(), the ticks of update, a serve, a pending removal callback): no
\* customer is created and no field reset() wrote changes.
C27_ResetClears ==
  /\ [](~autoSpawn => IsReset)
  /\ [][ autoSpawn /\ ~autoSpawn' => IsReset' ]_vars
  /\ [][ ~autoSpawn /\ ~autoSpawn' =>
           /\ UNCHANGED ResetFields
           /\ nextId' = nextId ]_vars

\* reset() has run on a manager that had created customers, a removal
\* callback of one of them is still pending
C27_Witness ==
  /\ IsReset
  /\ nextId > 1
  /\ timers # << >>
  /\ \E i \in DOMAIN timers : timers[i].delay = AngryRemoveDelay

(* ---------------- C28 ---------------- *)
\* the seconds of a Medium match that are followed
MaxMediumTime == 6
\* the customers created in them
MaxMediumCustomerId == 3
\* deltaTime of Game.update, in seconds
MediumDeltaTimes == { 1, 2, 3 }

\* the seconds played of the match
Elapsed == levelDuration - levelManager.timeRemaining

\* the first seconds of a solo match of difficulty Medium
NextMedium ==
  \/ StartSoloGame(MEDIUM) /\ UNCHANGED outsideGame
  \/ \E deltaTime \in MediumDeltaTimes :
       /\ levelManager.state = PLAYING
       /\ Elapsed + deltaTime <= MaxMediumTime
       /\ \E random \in (IF WillSpawn(deltaTime) THEN RandomSamples ELSE {0}) :
            GameUpdate(deltaTime, random, MaxMediumCustomerId)
       /\ UNCHANGED outsideGame

SpecMedium == Init /\ [][NextMedium]_vars

\* a Medium match after ticks totalling 3 seconds
MediumAfterThree ==
  /\ levelManager.state = PLAYING
  /\ levelManager.difficulty = MEDIUM
  /\ Elapsed = 3

\* C28 as stated: after ticks totalling 3 seconds of a Medium match exactly
\* one customer has spawned and its patience is 17.
C28_Original ==
  MediumAfterThree =>
     /\ nextId = 2
     /\ Len(customers) = 1
     /\ customers[1].patience = 17

\* C28: after ticks totalling 3 seconds of a Medium match (cap 3, spawn
\* interval 3 s, base patience 20) exactly one customer has spawned, on the
\* first tick; its patience is its maxPatience less the 3 seconds, that is
\* 17 + 5 x max(0, totalItems - 1): 17 for an order of one item, 22 for
\* two items and 27 for three.
C28_MediumFirstSpawn ==
  MediumAfterThree =>
     /\ nextId = 2
     /\ Len(customers) = 1
     /\ customers[1].maxPatience =
           20 + 5 * Max(0, getTotalOrderItems(customers[1]) - 1)
     /\ customers[1].patience = customers[1].maxPatience - 3
     /\ getTotalOrderItems(customers[1]) = 1 => customers[1].patience = 17

\* three seconds into a Medium match, in ticks of one second, the one
\* customer has an order of one item and a patience of 17
C28_Witness ==
  /\ MediumAfterThree
  /\ timeSinceLastSpawn = 2000
  /\ Len(customers) = 1
  /\ getTotalOrderItems(customers[1]) = 1
  /\ customers[1].patience = 17

(* ---------------- C29 ---------------- *)
\* the deliveries accepted among the calls of a serve action
Accepted(calls) == { k \in 1 .. Len(calls) : calls[k].result.success }

\* 1 point for each accepted delivery that does not complete an order and
\* twice the size of the order for each one that completes it
RECURSIVE PointsOf(_)
PointsOf(calls) ==
  IF calls = << >> THEN 0
  ELSE (IF ~Head(calls).result.success THEN 0
        ELSE IF Head(calls).result.completed
        THEN 2 * Head(calls).result.orderSize
        ELSE 1)
       + PointsOf(Tail(calls))

\* C29: a serve action adds to the score 1 point for each accepted delivery
\* that does not complete an order and twice the total of the original
\* order for each delivery that completes one; the items no customer
\* accepts stay in the inventory and add nothing; the result of an accepted
\* delivery gives the total of the customer's original order as orderSize.
C29_ServeScore ==
  /\ [](\A playerCenter \in PlayerCenters, itemType \in ItemType :
          LET r == tryServeCustomer([ customers |-> customers,
                                      served |-> customersServed,
                                      timers |-> timers ],
                                    playerCenter, itemType)
              before == customers[IndexOf(customers, r.target)]
          IN r.result.success =>
               /\ r.result.orderSize =
                     before.originalOrder.kebab + before.originalOrder.drink
               /\ r.result.completed <=>
                     before.order.kebab + before.order.drink = 1)
  /\ [][ lastServe'.name = "serveAll" =>
           /\ score' = score + PointsOf(lastServe'.calls)
           /\ Len(inventory') =
                 Len(inventory) - Cardinality(Accepted(lastServe'.calls))
           /\ \A k \in Accepted(lastServe'.calls) :
                 lastServe'.calls[k].result.orderSize
                    \in { getTotalOrderItems(customers[i]) :
                            i \in 1 .. Len(customers) }
       ]_vars

\* a serve action has delivered the three items of an order {kebab: 2,
\* drink: 1}: 1 + 1 + 2 x 3 points
C29_Witness ==
  /\ lastServe.name = "serveAll"
  /\ Len(lastServe.calls) = 3
  /\ Accepted(lastServe.calls) = { 1, 2, 3 }
  /\ lastServe.calls[3].result.completed
  /\ lastServe.calls[3].result.orderSize = 3
  /\ PointsOf(lastServe.calls) = 8
  /\ score >= 8
  /\ inventory = << >>

(* ---------------- C30 ---------------- *)
\* basePatience + 5 x max(0, totalItems - 1)
PatienceFor(basePatience, totalItems) ==
  IF totalItems > 1 THEN basePatience + 5 * (totalItems - 1)
  ELSE basePatience

\* the base patience of the difficulties and of the configured manager
BasePatiences ==
  { DifficultyConfig[d].customerPatience : d \in Difficulty }
     \cup { customerPatience }

\* C30: every customer spawnCustomer creates has maxPatience = basePatience
\* + 5 x max(0, totalItems - 1) and a patience equal to it: basePatience for
\* an order of one item, basePatience + 10 for an order of three; and every
\* customer of the list keeps the maxPatience the configured base patience
\* gives to its original order.
C30_SpawnPatience ==
  /\ [](\A random \in RandomSamples, basePatience \in BasePatiences :
          LET s == spawnCustomer(customers, customerPositions, NumPositions,
                                 basePatience, nextId, random)
              c == s.customers[Len(s.customers)]
              totalItems == c.originalOrder.kebab + c.originalOrder.drink
          IN s.spawned =>
               /\ c.id = nextId
               /\ c.maxPatience = PatienceFor(basePatience, totalItems)
               /\ c.patience = c.maxPatience
               /\ totalItems = 1 => c.maxPatience = basePatience
               /\ totalItems = 3 => c.maxPatience = basePatience + 10)
  /\ [][ \A i \in 1 .. Len(customers') :
           customers'[i].id = nextId =>
              /\ customers'[i].maxPatience =
                    PatienceFor(customerPatience,
                                getTotalOrderItems(customers'[i]))
              /\ customers'[i].patience <= customers'[i].maxPatience
       ]_vars

\* a customer with an order of three items and one with an order of one
\* item wait, with 10 more than the base patience and the base patience
C30_Witness ==
  /\ \E i \in 1 .. Len(customers) :
       /\ getTotalOrderItems(customers[i]) = 3
       /\ customers[i].maxPatience = customerPatience + 10
  /\ \E i \in 1 .. Len(customers) :
       /\ getTotalOrderItems(customers[i]) = 1
       /\ customers[i].maxPatience = customerPatience

(* ---------------- C31 ---------------- *)
\* the seven orders of the generator
SevenOrders ==
  { [kebab |-> 1, drink |-> 0], [kebab |-> 0, drink |-> 1],
    [kebab |-> 2, drink |-> 0], [kebab |-> 0, drink |-> 2],
    [kebab |-> 1, drink |-> 1], [kebab |-> 2, drink |-> 1],
    [kebab |-> 1, drink |-> 2] }

\* C31: every order the generator produces is one of the seven pairs
\* (1,0), (0,1), (2,0), (0,2), (1,1), (2,1), (1,2), so each count is at most
\* 2 and the total is between 1 and 4, and each of the seven is produced;
\* the original order of every customer is one of them, and the remaining
\* order of a customer has no negative count, in any reachable state and
\* after one more delivery of any kind.
C31_OrdersWellFormed ==
  /\ \A random \in RandomSamples :
       LET order == generateRandomOrder(random)
       IN /\ order \in SevenOrders
          /\ order.kebab <= 2 /\ order.drink <= 2
          /\ order.kebab + order.drink >= 1
          /\ order.kebab + order.drink <= 4
  /\ { generateRandomOrder(random) : random \in RandomSamples } = SevenOrders
  /\ \A i \in 1 .. Len(customers) :
       /\ customers[i].originalOrder \in SevenOrders
       /\ customers[i].order.kebab >= 0
       /\ customers[i].order.drink >= 0
       /\ \A itemType \in ItemType :
             LET d == deliverItem(customers[i], itemType)
             IN d.cust.order.kebab >= 0 /\ d.cust.order.drink >= 0

\* a customer with the order {kebab: 1, drink: 2}, the last of the seven,
\* has received everything
C31_Witness ==
  \E i \in 1 .. Len(customers) :
     /\ customers[i].originalOrder = [kebab |-> 1, drink |-> 2]
     /\ customers[i].order = [kebab |-> 0, drink |-> 0]
     /\ customers[i].satisfied

(* ---------------- C32 ---------------- *)
\* the customers created in the solo matches that are followed to their end
MaxLiveCustomerId == 11

\* the ticks of a match: update is given deltaTime seconds each time
TicksOfMatch == levelDuration \div 5

\* the difficulty of the matches followed to their end
LiveDifficulties == { HARD }

\* the sample of Math.random() * totalWeight in them: the order {kebab: 1}
LiveRandomSamples == { 0 }

\* the ticks of a solo match
LiveTick ==
  \E deltaTime \in DeltaTimes :
    \E random \in (IF WillSpawn(deltaTime) THEN LiveRandomSamples ELSE {0}) :
      GameUpdate(deltaTime, random, MaxLiveCustomerId) /\ UNCHANGED outsideGame

\* solo matches that can be played to their end: one is started while there
\* are identities left for the customers of all its ticks but the last,
\* which ends the match before the customers are updated
NextMatchLive ==
  \/ \E difficulty \in LiveDifficulties :
        /\ nextId + (TicksOfMatch - 1) <= MaxLiveCustomerId + 1
        /\ StartSoloGame(difficulty)
        /\ UNCHANGED outsideGame
  \/ HandleEscape /\ UNCHANGED outsideGame
  \/ EndScreenInteraction /\ UNCHANGED outsideGame
  \/ LiveTick
  \/ \E i \in 1 .. Len(timers) : TimerFire(i) /\ UNCHANGED outsideManager

\* the Game keeps being updated
SpecMatchLive == Init /\ [][NextMatchLive]_vars /\ WF_vars(LiveTick)

\* C32: in solo play a match in Playing that keeps receiving ticks with
\* dt > 0 leaves Playing: for Won, for Lost, or for the menu by the player.
C32_PlayingEnds ==
  levelManager.state = PLAYING ~> levelManager.state # PLAYING

\* a match has ended in Won with its time at zero after customers were lost
C32_Witness ==
  /\ levelManager.state = WON
  /\ levelManager.timeRemaining = 0
  /\ levelManager.customersLost > 0
(* ---------------- C33 ---------------- *)
\* Game.update of the Game that joined
ClientTick ==
  \E deltaTime \in NetDeltaTimes :
     /\ NetGameUpdate(P2, deltaTime)
     /\ lastHandler' = Handler("update", P2)
     /\ UNCHANGED outsideSession

\* the 'data' event of the connection of the Game p
DataEvent(p) ==
  /\ Deliver(p)
  /\ lastHandler' = Handler("data", p)
  /\ UNCHANGED outsideSession

\* a session whose Games keep being updated and whose messages are handled
SpecNetLive ==
  /\ Init
  /\ [][NextNet]_vars
  /\ WF_vars(ClientTick)
  /\ \A p \in Peers : WF_vars(DataEvent(p))

\* the connection of the session is open at both ends
LinkOpen ==
  \A p \in Peers :
     games[p].networkManager.connection = "open" /\ ~closing[p]

Ended(g) == g.levelManager.state \in { WON, LOST }

\* C33: in a multiplayer match with the connection kept open, the two Games
\* never hold different terminal states, and once the match of the host has
\* ended while the joined Game plays, the match of the joined Game ends in
\* the same terminal state.
C33_SameOutcome ==
  /\ []( LinkOpen /\ Ended(games[P1]) /\ Ended(games[P2])
           => games[P1].levelManager.state = games[P2].levelManager.state )
  /\ ( ( LinkOpen /\ Ended(games[P1])
           /\ games[P2].levelManager.state = PLAYING )
        ~> ( ~LinkOpen
             \/ games[P2].levelManager.state = games[P1].levelManager.state ) )

\* the match has ended at both ends of an open connection, the joined Game
\* having ended it with its own tick
C33_Witness ==
  /\ LinkOpen
  /\ lastHandler = [ name |-> "update", peer |-> P2, during |-> PLAYING ]
  /\ games[P1].levelManager.state = WON
  /\ games[P2].levelManager.state = WON
  /\ games[P2].gameMode = MULTI_CLIENT

(* ---------------- C34 ---------------- *)
\* the step is the callback of a timer of the call i
TimerStepOf(i) ==
  /\ i \in DOMAIN link.calls
  /\ Len(link'.calls) = Len(link.calls)
  /\ link'.now = link.now
  /\ \/ link.calls[i].globalAt # -1 /\ link'.calls[i].globalAt = -1
     \/ link.calls[i].peerAt # -1 /\ link'.calls[i].peerAt = -1

\* C34: the callbacks of the timers of a call of joinGame that disconnect()
\* has abandoned do not alter a later attempt made on the same manager: they
\* leave the fields of the manager and the promise of the later call as
\* they are.
C34_StaleTimersInert ==
  [][ \A i \in 1 .. MaxCalls :
        ( /\ TimerStepOf(i)
          /\ i < Current
          /\ link.calls[i].kind = "join"
          /\ link.calls[i].disconnected )
        => /\ link'.nm = link.nm
           /\ link'.calls[Current] = link.calls[Current]
    ]_vars

(* ---------------- C35 ---------------- *)
\* C35: every customer the joined Game constructs from a snapshot has the
\* maxPatience the host holds for that customer, so that patience /
\* maxPatience is the same at both ends.
C35_SameMaxPatience ==
  [][ SnapshotStep =>
        \A i \in 1 .. Len(client'.customers) :
           i > Len(client.customers) =>
              /\ client'.customers[i].patience = customers[i].patience
              /\ client'.customers[i].maxPatience = customers[i].maxPatience
    ]_vars

(* ---------------- C36 ---------------- *)
\* the customer manager of g as startMultiplayerGame(difficulty) is written
\* to configure it: one more customer than the difficulty allows, a spawn
\* delay of floor(0.8 x the delay of the difficulty), auto-spawn armed
ConfiguredForMultiplayer(g, difficulty) ==
  /\ g.autoSpawn
  /\ g.maxCustomers = DifficultyConfig[difficulty].maxCustomers + 1
  /\ g.spawnDelay = (DifficultyConfig[difficulty].customerSpawnDelay * 8) \div 10

\* C36: the start of a multiplayer match runs to its end: a Game that
\* enters Playing in a session has its customer manager configured with
\* the cap of the difficulty + 1, floor(0.8 x its spawn delay) and the
\* auto-spawn armed.
C36_MultiplayerConfigured ==
  [][ \A p \in Peers :
        ( /\ games[p].levelManager.state # PLAYING
          /\ games'[p].levelManager.state = PLAYING )
        => ConfiguredForMultiplayer(games'[p],
                                    games'[p].levelManager.difficulty)
    ]_vars

(* ---------------- C37 ---------------- *)
\* the customers created in a solo match with ticks of 7 seconds
MaxUnevenCustomerId == 8
\* deltaTime of Game.update, in seconds: a step that does not divide the
\* duration of the match
UnevenDeltaTimes == { 7 }
\* the samples of Math.random() * totalWeight: the orders {kebab: 1} and
\* {kebab: 2, drink: 1}
UnevenRandomSamples == { 0, 13 * RandomUnit }

\* a solo match of difficulty Hard with ticks of 7 seconds
NextUneven ==
  \/ StartSoloGame(HARD) /\ UNCHANGED outsideGame
  \/ EndScreenInteraction /\ UNCHANGED outsideGame
  \/ \E deltaTime \in UnevenDeltaTimes :
       \E random \in (IF WillSpawn(deltaTime) THEN UnevenRandomSamples
                                               ELSE {0}) :
         GameUpdate(deltaTime, random, MaxUnevenCustomerId)
         /\ UNCHANGED outsideGame
  \/ \E i \in 1 .. Len(timers) : TimerFire(i) /\ UNCHANGED outsideManager

SpecUneven == Init /\ [][NextUneven]_vars

\* C37: the remaining time of the match is never negative, in Menu, Playing,
\* Won and Lost, and so in the state the final score is saved from.
C37_TimeNotNegative ==
  levelManager.timeRemaining >= 0

(* ---------------- C38: the two counts of lost customers ---------------- *)

\* the customers that the step has made angry
BecameAngry ==
  { i \in 1 .. Len(customers') :
      /\ customers'[i].angry
      /\ ~ \E j \in 1 .. Len(customers) :
             customers[j].id = customers'[i].id /\ customers[j].angry }

\* C38: in a solo match, after every operation of the game the abandoned count
\* of the match clock equals the lost count of the customer simulation, and a
\* step in which n customers become angry adds exactly n to each of them
C38_LostCountsAgree ==
  /\ [](levelManager.customersLost = customersLost)
  /\ [][ /\ customersLost' > customersLost =>
             /\ customersLost' = customersLost + Cardinality(BecameAngry)
             /\ levelManager'.customersLost =
                   levelManager.customersLost + Cardinality(BecameAngry)
         /\ BecameAngry # {} => customersLost' > customersLost ]_vars

\* C38 witness: two customers have been lost in a running match, and both
\* counts say so
C38_Witness ==
  /\ levelManager.state = PLAYING
  /\ customersLost = 2
  /\ levelManager.customersLost = 2
  /\ \E i \in 1 .. Len(customers) : customers[i].angry

(* ---------------- C39: the session fields agree ---------------- *)

\* C39: after every operation of the NetworkManager and every handler of a
\* transport event, the state disconnected comes with the role none and no
\* session code, the state waiting comes with the role host, and
\* isConnected() comes with a connection object
C39_SessionFieldsConsistent ==
  /\ link.nm.state = DISCONNECTED =>
        link.nm.role = NONE /\ link.nm.sessionCode = "null"
  /\ link.nm.state = WAITING => link.nm.role = HOST
  /\ isConnected(link.nm) => link.nm.connection # "null"

====
